---- MODULE Spec2Model ----
(***************************************************************************)
(* A model of ios_control: the IOSDevice session (device.py), the external *)
(* commands it shells out to, and the command line layer on top (cli.py).  *)
(*                                                                         *)
(* Every external command (subprocess.run(..., check=True)) ends in one of *)
(* three ways: "ok" (exit status 0), "nonzero" (CalledProcessError) or     *)
(* "missing" (FileNotFoundError: the binary is not on the host).  What a   *)
(* command prints is an input chosen by the environment.                   *)
(***************************************************************************)
EXTENDS Integers, Sequences, FiniteSets, TLC

\* ------------------------------------------------------------------ bounds
MaxLines == 2          \* lines printed by the enumeration command
MaxCoord == 1          \* gesture coordinates range over 0..MaxCoord
MaxTimeout == 2        \* longest timeout given to wait_for_element_by_text, in half seconds
MaxFetchTicks == 1     \* half seconds one hierarchy fetch may take

\* ------------------------------------------------------------ basic values
None == "None"                       \* Python's None, where a string may stand
Udids == {"A", "B"}                  \* identifiers a device may have
UdidArgs == {None, ""} \cup Udids    \* what IOSDevice(udid=...) may be given
Truthy(s) == s # None /\ s # ""      \* `if self.udid:`

\* "missing": the executable named first in the argument list could not be
\* started (for the pymobiledevice3 commands that executable is python3).
Outcomes == {"ok", "nonzero", "missing"}

DeviceNotFoundError == "DeviceNotFoundError"
IOSConnectionError == "IOSConnectionError"
UnsupportedOperationError == "UnsupportedOperationError"
OtherError == "Exception"            \* any exception outside the package's own
DomainErrors == {DeviceNotFoundError, IOSConnectionError, UnsupportedOperationError}

\* The outcome of a call: a returned value or a raised exception.
Return(v) == [kind |-> "return", error |-> None, value |-> v]
Raise(e) == [kind |-> "raise", error |-> e, value |-> <<>>]
NoCall == [kind |-> "none", error |-> None, value |-> <<>>]
Returned(r) == r.kind = "return"
Raised(r, e) == r.kind = "raise" /\ r.error = e

\* One external command as it appears in the log of an operation, with how it ended.
Cmd(tool, op, u, args, rc) ==
  [tool |-> tool, op |-> op, udid |-> u, args |-> args, rc |-> rc]

\* ------------------------------------------------------------ list_devices
Names == {"iPhone"}
Versions == {"17.0"}
\* How the two metadata commands end for one identifier.
MetaRuns == [name_rc : Outcomes, version_rc : Outcomes, name : Names, version : Versions]

DeviceRecord(u, n, v) == [udid |-> u, name |-> n, ios_version |-> v]
Placeholder(u) == DeviceRecord(u, "Unknown Device", "Unknown")

\* device_ids = [uid for uid in stdout.strip().split("\n") if uid]
NonEmptyLines(lines) == SelectSeq(lines, LAMBDA l : l # "")

\* The body of the loop over device_ids for one identifier: the record it
\* appends, or abort when FileNotFoundError leaves the loop.
MetaLookup(u, m) ==
  IF m.name_rc = "missing" \/ (m.name_rc = "ok" /\ m.version_rc = "missing")
  THEN [abort |-> TRUE, device |-> Placeholder(u)]
  ELSE IF m.name_rc = "nonzero" \/ m.version_rc = "nonzero"
  THEN [abort |-> FALSE, device |-> Placeholder(u)]
  ELSE [abort |-> FALSE, device |-> DeviceRecord(u, m.name, m.version)]

\* The metadata commands one identifier costs: the version lookup runs only
\* after the name lookup succeeded.
MetaCmds(u, m) ==
  <<Cmd("ideviceinfo", "DeviceName", u, <<>>, m.name_rc)>>
  \o (IF m.name_rc = "ok"
      THEN <<Cmd("ideviceinfo", "ProductVersion", u, <<>>, m.version_rc)>> ELSE <<>>)

RECURSIVE DeviceLoop(_, _, _)
DeviceLoop(ids, meta, i) ==
  IF i > Len(ids) THEN [abort |-> FALSE, devices |-> <<>>, log |-> <<>>]
  ELSE LET one == MetaLookup(ids[i], meta[i])
           cmds == MetaCmds(ids[i], meta[i])
       IN IF one.abort THEN [abort |-> TRUE, devices |-> <<>>, log |-> cmds]
          ELSE LET rest == DeviceLoop(ids, meta, i + 1)
               IN [abort |-> rest.abort,
                   devices |-> <<one.device>> \o rest.devices,
                   log |-> cmds \o rest.log]

\* list_devices(): enum_rc is how `idevice_id -l` ends, lines what it prints,
\* meta[i] how the metadata commands end for the i-th identifier.
ListDevicesRaisesWhenMissing(enum_rc, lines, meta) ==
  LET enumCmd == <<Cmd("idevice_id", "-l", None, <<>>, enum_rc)>>
  IN IF enum_rc = "missing"
     THEN [result |-> Raise(UnsupportedOperationError), log |-> enumCmd]
     ELSE IF enum_rc = "nonzero" THEN [result |-> Return(<<>>), log |-> enumCmd]
     ELSE LET loop == DeviceLoop(NonEmptyLines(lines), meta, 1)
          IN [result |-> Return(IF loop.abort THEN <<>> ELSE loop.devices),
              log |-> enumCmd \o loop.log]
list_devices(enum_rc, lines, meta) ==
  LET enumCmd == <<Cmd("idevice_id", "-l", None, <<>>, enum_rc)>>
  IN IF enum_rc # "ok" THEN [result |-> Return(<<>>), log |-> enumCmd]
     ELSE LET loop == DeviceLoop(NonEmptyLines(lines), meta, 1)
          IN [result |-> Return(IF loop.abort THEN <<>> ELSE loop.devices),
              log |-> enumCmd \o loop.log]

\* Every output of the enumeration command within the bound, blank lines included.
LineSeqs == UNION {[1..n -> Udids \cup {""}] : n \in 0..MaxLines}
MetaSeqs == [1..MaxLines -> MetaRuns]
\* Every list list_devices() can return on a host.
Discoveries ==
  {list_devices(e, l, m).result.value : e \in Outcomes, l \in LineSeqs, m \in MetaSeqs}
\* A list_devices() call that returns devices; its commands are left out of
\* the caller's log.
Discovery(devices) == [result |-> Return(devices), log |-> <<>>]

\* ------------------------------------------------------------------ session
\* The session is IOSDevice's three fields.  An Optional value is a sequence
\* of at most one element: <<>> is None.
Session(u, c, d) == [udid |-> u, connected |-> c, device_info |-> d]
\* __init__
NewSession(u) == Session(u, FALSE, <<>>)

\* next((d for d in devices if d.get("udid") == udid), None), as an index (0: None)
FirstWithUdid(devices, u) ==
  IF \E i \in 1..Len(devices) : devices[i].udid = u
  THEN CHOOSE i \in 1..Len(devices) :
         /\ devices[i].udid = u
         /\ \A j \in 1..(i - 1) : devices[j].udid # u
  ELSE 0

\* The try block of connect(): lines 49-63.
ConnectTryKeepsUdid(s, devices) ==
  IF Len(devices) = 0 THEN [s |-> s, result |-> Raise(DeviceNotFoundError)]
  ELSE IF Truthy(s.udid)
  THEN LET i == FirstWithUdid(devices, s.udid)
       IN IF i = 0 THEN [s |-> s, result |-> Raise(DeviceNotFoundError)]
          ELSE [s |-> Session(s.udid, TRUE, <<devices[i]>>), result |-> Return(TRUE)]
  ELSE [s |-> Session(s.udid, TRUE, <<devices[1]>>), result |-> Return(TRUE)]
ConnectTryDropsOnFailure(s, devices) ==
  IF Len(devices) = 0 \/ (Truthy(s.udid) /\ FirstWithUdid(devices, s.udid) = 0)
  THEN [s |-> Session(s.udid, FALSE, <<>>), result |-> Raise(DeviceNotFoundError)]
  ELSE IF Truthy(s.udid)
  THEN [s |-> Session(s.udid, TRUE, <<devices[FirstWithUdid(devices, s.udid)]>>),
        result |-> Return(TRUE)]
  ELSE [s |-> Session(devices[1].udid, TRUE, <<devices[1]>>), result |-> Return(TRUE)]
ConnectTry(s, devices) ==
  IF Len(devices) = 0 THEN [s |-> s, result |-> Raise(DeviceNotFoundError)]
  ELSE IF Truthy(s.udid)
  THEN LET i == FirstWithUdid(devices, s.udid)
       IN IF i = 0 THEN [s |-> s, result |-> Raise(DeviceNotFoundError)]
          ELSE [s |-> Session(s.udid, TRUE, <<devices[i]>>), result |-> Return(TRUE)]
  ELSE [s |-> Session(devices[1].udid, TRUE, <<devices[1]>>), result |-> Return(TRUE)]

\* connect(): the try block under `except Exception as e: raise IOSConnectionError`.
ConnectLastDevice(s, run) ==
  LET devices == run.result.value
  IN IF Len(devices) = 0 \/ (Truthy(s.udid) /\ FirstWithUdid(devices, s.udid) = 0)
     THEN [s |-> s, result |-> Raise(IOSConnectionError), log |-> run.log]
     ELSE IF Truthy(s.udid)
     THEN [s |-> Session(s.udid, TRUE, <<devices[Len(devices)]>>),
           result |-> Return(TRUE), log |-> run.log]
     ELSE [s |-> Session(devices[Len(devices)].udid, TRUE, <<devices[Len(devices)]>>),
           result |-> Return(TRUE), log |-> run.log]
connect(s, run) ==
  LET t == ConnectTry(s, run.result.value)
  IN [s |-> t.s,
      result |-> IF t.result.kind = "raise" THEN Raise(IOSConnectionError) ELSE t.result,
      log |-> run.log]

\* disconnect()
DisconnectClearsUdid(s) ==
  [s |-> Session(None, FALSE, <<>>), result |-> Return(None), log |-> <<>>]
DisconnectKeepsRecord(s) ==
  [s |-> Session(s.udid, FALSE, s.device_info), result |-> Return(None), log |-> <<>>]
disconnect(s) ==
  [s |-> Session(s.udid, FALSE, <<>>), result |-> Return(None), log |-> <<>>]

\* ------------------------------------------------- single-command operations
NotConnected(s) == [s |-> s, result |-> Raise(IOSConnectionError), log |-> <<>>]

\* try: subprocess.run(cmd, check=True); return value
\* except CalledProcessError: raise IOSConnectionError
\* except FileNotFoundError: raise UnsupportedOperationError
RunOneDisconnectsOnFailure(s, cmd, rc, value) ==
  [s |-> IF rc = "ok" THEN s ELSE Session(s.udid, FALSE, <<>>),
   result |-> IF rc = "ok" THEN Return(value)
              ELSE IF rc = "nonzero" THEN Raise(IOSConnectionError)
              ELSE Raise(UnsupportedOperationError),
   log |-> <<cmd>>]
RunOne(s, cmd, rc, value) ==
  [s |-> s,
   result |-> IF rc = "ok" THEN Return(value)
              ELSE IF rc = "nonzero" THEN Raise(IOSConnectionError)
              ELSE Raise(UnsupportedOperationError),
   log |-> <<cmd>>]

\* What `ideviceinfo -u <udid>` prints: lines with or without a colon.
InfoLine(k, v) == [colon |-> TRUE, key |-> k, value |-> v]
NoColonLine == [colon |-> FALSE, key |-> "", value |-> ""]
InfoLines == {NoColonLine, InfoLine("ProductType", "iPhone16,2"),
              InfoLine("ProductType", "iPod9,1")}
MaxInfoLines == 2
InfoOutputs == UNION {[1..n -> InfoLines] : n \in 0..MaxInfoLines}

\* info[key.strip()] = value.strip() for each line holding ":": the last wins.
ParseInfo(lines) ==
  LET idx == {i \in 1..Len(lines) : lines[i].colon}
      keys == {lines[i].key : i \in idx}
      last(k) == CHOOSE i \in idx :
                   lines[i].key = k /\ \A j \in idx : lines[j].key = k => j <= i
  IN [k \in keys |-> lines[last(k)].value]

get_device_info(s, rc, lines) ==
  IF ~s.connected THEN NotConnected(s)
  ELSE RunOne(s, Cmd("ideviceinfo", "info", s.udid, <<>>, rc), rc, ParseInfo(lines))

install_app(s, rc) ==
  IF ~s.connected THEN NotConnected(s)
  ELSE RunOne(s, Cmd("ideviceinstaller", "-i", s.udid, <<>>, rc), rc, TRUE)

uninstall_app(s, rc) ==
  IF ~s.connected THEN NotConnected(s)
  ELSE RunOne(s, Cmd("ideviceinstaller", "-U", s.udid, <<>>, rc), rc, TRUE)

\* What `ideviceinstaller -l` prints: lines with or without the " - " delimiter.
AppLines == {[delim |-> TRUE, bundle_id |-> "com.a", name |-> "App A"],
             [delim |-> FALSE, bundle_id |-> "", name |-> ""]}
MaxAppLines == 2
AppOutputs == UNION {[1..n -> AppLines] : n \in 0..MaxAppLines}
RECURSIVE ParseApps(_)
ParseApps(lines) ==
  IF Len(lines) = 0 THEN <<>>
  ELSE (IF Head(lines).delim
        THEN <<[bundle_id |-> Head(lines).bundle_id, name |-> Head(lines).name]>>
        ELSE <<>>) \o ParseApps(Tail(lines))

list_apps(s, rc, lines) ==
  IF ~s.connected THEN NotConnected(s)
  ELSE RunOne(s, Cmd("ideviceinstaller", "-l", s.udid, <<>>, rc), rc, ParseApps(lines))

reboot(s, rc) ==
  IF ~s.connected THEN NotConnected(s)
  ELSE RunOne(s, Cmd("idevicediagnostics", "restart", s.udid, <<>>, rc), rc, TRUE)

screenshot(s, rc) ==
  IF ~s.connected THEN NotConnected(s)
  ELSE RunOne(s, Cmd("idevicescreenshot", "screenshot", s.udid, <<>>, rc), rc, "screenshot.png")

LongPressWithFallback(s, x, y, rc) ==
  IF ~s.connected THEN NotConnected(s)
  ELSE LET primary == Cmd("pymobiledevice3", "longpress", s.udid, <<x, y>>, rc)
       IN IF rc = "nonzero"
          THEN [s |-> s, result |-> Raise(IOSConnectionError),
                log |-> <<primary, Cmd("tidevice", "longpress", s.udid, <<x, y>>, "nonzero")>>]
          ELSE RunOne(s, primary, rc, TRUE)
long_press(s, x, y, rc) ==
  IF ~s.connected THEN NotConnected(s)
  ELSE RunOne(s, Cmd("pymobiledevice3", "longpress", s.udid, <<x, y>>, rc), rc, TRUE)

\* --------------------------------------------------- gestures with a fallback
\* try: run(primary); return True
\* except CalledProcessError:
\*     try: run(secondary); return True
\*     except (CalledProcessError, FileNotFoundError): raise IOSConnectionError
\* except FileNotFoundError: raise UnsupportedOperationError
RunWithFallbackNoSecondary(s, primary, secondary, rc1, rc2) ==
  [s |-> s,
   result |-> IF rc1 = "ok" THEN Return(TRUE)
              ELSE IF rc1 = "nonzero" THEN Raise(IOSConnectionError)
              ELSE Raise(UnsupportedOperationError),
   log |-> <<primary>>]
RunWithFallbackAlsoWhenMissing(s, primary, secondary, rc1, rc2) ==
  IF rc1 = "ok" THEN [s |-> s, result |-> Return(TRUE), log |-> <<primary>>]
  ELSE [s |-> s,
        result |-> IF rc2 = "ok" THEN Return(TRUE)
                   ELSE IF rc1 = "nonzero" THEN Raise(IOSConnectionError)
                   ELSE Raise(UnsupportedOperationError),
        log |-> <<primary, secondary>>]
RunWithFallbackRetriesSecondary(s, primary, secondary, rc1, rc2) ==
  IF rc1 = "ok" THEN [s |-> s, result |-> Return(TRUE), log |-> <<primary>>]
  ELSE IF rc1 = "nonzero"
  THEN [s |-> s,
        result |-> IF rc2 = "ok" THEN Return(TRUE) ELSE Raise(IOSConnectionError),
        log |-> IF rc2 = "ok" THEN <<primary, secondary>> ELSE <<primary, secondary, secondary>>]
  ELSE [s |-> s, result |-> Raise(UnsupportedOperationError), log |-> <<primary>>]
RunWithFallback(s, primary, secondary, rc1, rc2) ==
  IF rc1 = "ok" THEN [s |-> s, result |-> Return(TRUE), log |-> <<primary>>]
  ELSE IF rc1 = "nonzero"
  THEN [s |-> s,
        result |-> IF rc2 = "ok" THEN Return(TRUE) ELSE Raise(IOSConnectionError),
        log |-> <<primary, secondary>>]
  ELSE [s |-> s, result |-> Raise(UnsupportedOperationError), log |-> <<primary>>]

tap(s, x, y, rc1, rc2) ==
  IF ~s.connected THEN NotConnected(s)
  ELSE RunWithFallback(s, Cmd("pymobiledevice3", "tap", s.udid, <<x, y>>, rc1),
                       Cmd("tidevice", "tap", s.udid, <<x, y>>, rc2), rc1, rc2)

\* duration is counted in tenths of a second; only the primary command is
\* given it ("--duration", str(duration)).
swipe(s, x1, y1, x2, y2, duration, rc1, rc2) ==
  IF ~s.connected THEN NotConnected(s)
  ELSE RunWithFallback(s, Cmd("pymobiledevice3", "swipe", s.udid,
                              <<x1, y1, x2, y2, duration>>, rc1),
                       Cmd("tidevice", "swipe", s.udid, <<x1, y1, x2, y2>>, rc2), rc1, rc2)

input_text(s, rc1, rc2) ==
  IF ~s.connected THEN NotConnected(s)
  ELSE RunWithFallback(s, Cmd("pymobiledevice3", "input", s.udid, <<>>, rc1),
                       Cmd("tidevice", "input", s.udid, <<>>, rc2), rc1, rc2)

home_button(s, rc1, rc2) ==
  IF ~s.connected THEN NotConnected(s)
  ELSE RunWithFallback(s, Cmd("pymobiledevice3", "home", s.udid, <<>>, rc1),
                       Cmd("tidevice", "home", s.udid, <<>>, rc2), rc1, rc2)

\* back_button(): swipe(10, 300, 200, 300, 0.3) under `except Exception`.
BackButtonPassesErrors(s, rc1, rc2) ==
  IF ~s.connected THEN NotConnected(s) ELSE swipe(s, 10, 300, 200, 300, 3, rc1, rc2)
back_button(s, rc1, rc2) ==
  IF ~s.connected THEN NotConnected(s)
  ELSE LET r == swipe(s, 10, 300, 200, 300, 3, rc1, rc2)
       IN [s |-> r.s,
           result |-> IF r.result.kind = "raise" THEN Raise(IOSConnectionError) ELSE r.result,
           log |-> r.log]

\* ---------------------------------------------------------- element resolver
\* A string is a sequence of characters, so that lower() and `in` are computed.
LowerChar(c) == CASE c = "A" -> "a" [] c = "B" -> "b" [] OTHER -> c
Lower(t) == [i \in 1..Len(t) |-> LowerChar(t[i])]
\* a in b, for strings
IsSubstring(a, b) ==
  \E i \in 0..(Len(b) - Len(a)) : \A k \in 1..Len(a) : b[i + k] = a[k]

\* A bounds value: absent (None), a mapping of keys to integers, a sequence of
\* integers, or anything else that is truthy (a string, a number).
NoBounds == [type |-> "none"]
DictBounds(m) == [type |-> "dict", map |-> m]
ListBounds(l) == [type |-> "list", items |-> l]
OtherBounds == [type |-> "other"]
BoundsTruthy(b) ==
  CASE b.type = "none" -> FALSE
    [] b.type = "dict" -> DOMAIN b.map # {}
    [] b.type = "list" -> Len(b.items) > 0
    [] OTHER -> TRUE

\* A hierarchy element: a mapping (dict), a sequence (list) or a scalar.
\* A missing text field is the empty string, a missing child key the empty
\* list, as element.get(key, "") and element.get(key, []) read them;
\* empty_lists names the child keys that are present and hold an empty list.
DictNode(t, l, n, b, f, c, e) ==
  [type |-> "dict", text |-> t, label |-> l, name |-> n, bounds |-> b, frame |-> f,
   children |-> c, elements |-> e, empty_lists |-> {}]
ListNode(items) == [type |-> "list", items |-> items]
ScalarNode == [type |-> "scalar"]

\* a or b, for strings and for lists
OrSeq(a, b) == IF Len(a) > 0 THEN a ELSE b
\* element.get("bounds") or element.get("frame")
OrBounds(a, b) == IF BoundsTruthy(a) THEN a ELSE b

XYWH == {"x", "y", "width", "height"}
LTRB == {"left", "top", "right", "bottom"}
Fallback == <<100, 100>>

\* _get_center_coordinates(bounds); // is floor division, as \div is.
\* x = bounds["x"] + bounds["width"] // 2; y = bounds["y"] + bounds["height"] // 2
CenterXYWHTruncating(m) ==
  <<m["x"] + (IF m["width"] < 0 THEN 0 - ((0 - m["width"]) \div 2) ELSE m["width"] \div 2),
    m["y"] + (IF m["height"] < 0 THEN 0 - ((0 - m["height"]) \div 2) ELSE m["height"] \div 2)>>
CenterXYWH(m) == <<m["x"] + (m["width"] \div 2), m["y"] + (m["height"] \div 2)>>
\* x = (bounds["left"] + bounds["right"]) // 2; y = (bounds["top"] + bounds["bottom"]) // 2
CenterLTRBAsXYWH(m) == <<m["left"] + (m["right"] \div 2), m["top"] + (m["bottom"] \div 2)>>
CenterLTRB(m) == <<(m["left"] + m["right"]) \div 2, (m["top"] + m["bottom"]) \div 2>>
\* x = (bounds[0] + bounds[2]) // 2; y = (bounds[1] + bounds[3]) // 2
CenterListAsXYWH(l) == <<l[1] + (l[3] \div 2), l[2] + (l[4] \div 2)>>
CenterList(l) == <<(l[1] + l[3]) \div 2, (l[2] + l[4]) \div 2>>
get_center_coordinates(b) ==
  IF b.type = "dict" /\ XYWH \subseteq DOMAIN b.map THEN CenterXYWH(b.map)
  ELSE IF b.type = "dict" /\ LTRB \subseteq DOMAIN b.map THEN CenterLTRB(b.map)
  ELSE IF b.type = "list" /\ Len(b.items) >= 4 THEN CenterList(b.items)
  ELSE Fallback

\* The match rule of search_recursive, lines 623-631.
TextMatchesIgnoringCase(element_text, text, exact_match) ==
  /\ Len(element_text) > 0
  /\ IF exact_match THEN Lower(element_text) = Lower(text)
     ELSE IsSubstring(Lower(text), Lower(element_text))
TextMatches(element_text, text, exact_match) ==
  /\ Len(element_text) > 0
  /\ IF exact_match THEN element_text = text
     ELSE IsSubstring(Lower(text), Lower(element_text))

\* search_recursive(element).  result: <<>> is None, else the pair (x, y);
\* visited: the elements search_recursive was called on, in call order.
RECURSIVE search_recursive(_, _, _)
RECURSIVE SearchItems(_, _, _, _)
\* for item in items: result = search_recursive(item); if result: return result
SearchItemsLastWins(items, i, text, exact_match) ==
  IF i > Len(items) THEN [result |-> <<>>, visited |-> <<>>]
  ELSE LET r == search_recursive(items[i], text, exact_match)
           rest == SearchItems(items, i + 1, text, exact_match)
       IN [result |-> IF rest.result # <<>> THEN rest.result ELSE r.result,
           visited |-> r.visited \o rest.visited]
SearchItems(items, i, text, exact_match) ==
  IF i > Len(items) THEN [result |-> <<>>, visited |-> <<>>]
  ELSE LET r == search_recursive(items[i], text, exact_match)
       IN IF r.result # <<>> THEN r
          ELSE LET rest == SearchItems(items, i + 1, text, exact_match)
               IN [result |-> rest.result, visited |-> r.visited \o rest.visited]
SearchStopsAtMatchWithoutBounds(element, text, exact_match) ==
  IF element.type = "dict"
  THEN LET element_text == OrSeq(element.text, OrSeq(element.label, element.name))
           bounds == OrBounds(element.bounds, element.frame)
       IN IF TextMatches(element_text, text, exact_match)
          THEN [result |-> IF BoundsTruthy(bounds) THEN get_center_coordinates(bounds) ELSE <<>>,
                visited |-> <<element>>]
          ELSE LET below == SearchItems(OrSeq(element.children, element.elements), 1,
                                        text, exact_match)
               IN [result |-> below.result, visited |-> <<element>> \o below.visited]
  ELSE IF element.type = "list"
  THEN LET below == SearchItems(element.items, 1, text, exact_match)
       IN [result |-> below.result, visited |-> <<element>> \o below.visited]
  ELSE [result |-> <<>>, visited |-> <<element>>]
SearchFallbackWithoutBounds(element, text, exact_match) ==
  IF element.type = "dict"
  THEN LET element_text == OrSeq(element.text, OrSeq(element.label, element.name))
           bounds == OrBounds(element.bounds, element.frame)
       IN IF TextMatches(element_text, text, exact_match)
          THEN [result |-> get_center_coordinates(bounds), visited |-> <<element>>]
          ELSE LET below == SearchItems(OrSeq(element.children, element.elements), 1,
                                        text, exact_match)
               IN [result |-> below.result, visited |-> <<element>> \o below.visited]
  ELSE IF element.type = "list"
  THEN LET below == SearchItems(element.items, 1, text, exact_match)
       IN [result |-> below.result, visited |-> <<element>> \o below.visited]
  ELSE [result |-> <<>>, visited |-> <<element>>]
SearchMatchesAnyField(element, text, exact_match) ==
  IF element.type = "dict"
  THEN LET bounds == OrBounds(element.bounds, element.frame)
       IN IF /\ \/ TextMatches(element.text, text, exact_match)
                \/ TextMatches(element.label, text, exact_match)
                \/ TextMatches(element.name, text, exact_match)
             /\ BoundsTruthy(bounds)
          THEN [result |-> get_center_coordinates(bounds), visited |-> <<element>>]
          ELSE LET below == SearchItems(OrSeq(element.children, element.elements), 1,
                                        text, exact_match)
               IN [result |-> below.result, visited |-> <<element>> \o below.visited]
  ELSE IF element.type = "list"
  THEN LET below == SearchItems(element.items, 1, text, exact_match)
       IN [result |-> below.result, visited |-> <<element>> \o below.visited]
  ELSE [result |-> <<>>, visited |-> <<element>>]
SearchTraversesBothCollections(element, text, exact_match) ==
  IF element.type = "dict"
  THEN LET element_text == OrSeq(element.text, OrSeq(element.label, element.name))
           bounds == OrBounds(element.bounds, element.frame)
       IN IF TextMatches(element_text, text, exact_match) /\ BoundsTruthy(bounds)
          THEN [result |-> get_center_coordinates(bounds), visited |-> <<element>>]
          ELSE LET below == SearchItems(element.children \o element.elements, 1,
                                        text, exact_match)
               IN [result |-> below.result, visited |-> <<element>> \o below.visited]
  ELSE IF element.type = "list"
  THEN LET below == SearchItems(element.items, 1, text, exact_match)
       IN [result |-> below.result, visited |-> <<element>> \o below.visited]
  ELSE [result |-> <<>>, visited |-> <<element>>]
search_recursive(element, text, exact_match) ==
  IF element.type = "dict"
  THEN LET element_text == OrSeq(element.text, OrSeq(element.label, element.name))
           bounds == OrBounds(element.bounds, element.frame)
       IN IF TextMatches(element_text, text, exact_match) /\ BoundsTruthy(bounds)
          THEN [result |-> get_center_coordinates(bounds), visited |-> <<element>>]
          ELSE LET below == SearchItems(OrSeq(element.children, element.elements), 1,
                                        text, exact_match)
               IN [result |-> below.result, visited |-> <<element>> \o below.visited]
  ELSE IF element.type = "list"
  THEN LET below == SearchItems(element.items, 1, text, exact_match)
       IN [result |-> below.result, visited |-> <<element>> \o below.visited]
  ELSE [result |-> <<>>, visited |-> <<element>>]

find_element_by_text(ui_info, text, exact_match) ==
  search_recursive(ui_info, text, exact_match).result

\* ------------------------------------------------------------- UI hierarchy
\* What the environment decides for one _get_ui_hierarchy() call: how the
\* primary dump ends, whether its output is JSON and of what, how the
\* secondary dump ends.
FetchRun(rc1, json_ok, ui, rc2) == [rc1 |-> rc1, json_ok |-> json_ok, ui |-> ui, rc2 |-> rc2]

\* {"hierarchy": result.stdout}: a mapping with no text, bounds or children
RawDump == DictNode(<<>>, <<>>, <<>>, NoBounds, NoBounds, <<>>, <<>>)

\* _get_ui_hierarchy(); json.loads raises a ValueError on output that is no JSON.
get_ui_hierarchy(s, f) ==
  LET primary == Cmd("pymobiledevice3", "ui", s.udid, <<>>, f.rc1)
      secondary == Cmd("tidevice", "dump-hierarchy", s.udid, <<>>, f.rc2)
  IN IF f.rc1 = "ok"
     THEN [result |-> IF f.json_ok THEN Return(f.ui) ELSE Raise(OtherError),
           log |-> <<primary>>]
     ELSE IF f.rc1 = "nonzero"
     THEN [result |-> IF f.rc2 = "ok" THEN Return(RawDump)
                      ELSE Raise(UnsupportedOperationError),
           log |-> <<primary, secondary>>]
     ELSE [result |-> Raise(UnsupportedOperationError), log |-> <<primary>>]

\* tap_by_text(): every exception of the try block becomes IOSConnectionError.
TapByTextFallbackWhenNotFound(s, text, exact_match, f, rc1, rc2) ==
  IF ~s.connected THEN NotConnected(s)
  ELSE LET h == get_ui_hierarchy(s, f)
       IN IF h.result.kind = "raise"
          THEN [s |-> s, result |-> Raise(IOSConnectionError), log |-> h.log]
          ELSE LET coordinates == find_element_by_text(h.result.value, text, exact_match)
                   at == IF coordinates # <<>> THEN coordinates ELSE Fallback
                   t == tap(s, at[1], at[2], rc1, rc2)
               IN [s |-> t.s,
                   result |-> IF t.result.kind = "raise" THEN Raise(IOSConnectionError)
                              ELSE t.result,
                   log |-> h.log \o t.log]
TapByTextPassesErrors(s, text, exact_match, f, rc1, rc2) ==
  IF ~s.connected THEN NotConnected(s)
  ELSE LET h == get_ui_hierarchy(s, f)
       IN IF h.result.kind = "raise" THEN [s |-> s, result |-> h.result, log |-> h.log]
          ELSE LET coordinates == find_element_by_text(h.result.value, text, exact_match)
               IN IF coordinates # <<>>
                  THEN LET t == tap(s, coordinates[1], coordinates[2], rc1, rc2)
                       IN [s |-> t.s, result |-> t.result, log |-> h.log \o t.log]
                  ELSE [s |-> s, result |-> Raise(IOSConnectionError), log |-> h.log]
tap_by_text(s, text, exact_match, f, rc1, rc2) ==
  IF ~s.connected THEN NotConnected(s)
  ELSE LET h == get_ui_hierarchy(s, f)
       IN IF h.result.kind = "raise"
          THEN [s |-> s, result |-> Raise(IOSConnectionError), log |-> h.log]
          ELSE LET coordinates == find_element_by_text(h.result.value, text, exact_match)
               IN IF coordinates # <<>>
                  THEN LET t == tap(s, coordinates[1], coordinates[2], rc1, rc2)
                       IN [s |-> t.s,
                           result |-> IF t.result.kind = "raise"
                                      THEN Raise(IOSConnectionError) ELSE t.result,
                           log |-> h.log \o t.log]
                  ELSE [s |-> s, result |-> Raise(IOSConnectionError), log |-> h.log]

\* -------------------------------------------------------------- screen size
DefaultScreenSize == <<375, 667>>
\* screen_sizes.get(product_type, (375, 667))
ScreenSizeOf(product_type) ==
  CASE product_type \in {"iPhone16,2", "iPhone16,1"} -> <<393, 852>>
    [] product_type \in {"iPhone15,5", "iPhone14,3", "iPhone13,4"} -> <<428, 926>>
    [] product_type \in {"iPhone15,4", "iPhone14,2", "iPhone13,3"} -> <<390, 844>>
    [] product_type \in {"iPad14,6", "iPad13,11"} -> <<1024, 1366>>
    [] OTHER -> DefaultScreenSize

\* get_screen_size(): any exception of get_device_info() gives the default.
GetScreenSizeTry(s, rc, lines) ==
  LET r == get_device_info(s, rc, lines)
  IN [s |-> r.s,
      result |-> IF r.result.kind = "raise" THEN Return(DefaultScreenSize)
                 ELSE LET info == r.result.value
                      IN Return(ScreenSizeOf(IF "ProductType" \in DOMAIN info
                                             THEN info["ProductType"] ELSE "")),
      log |-> r.log]
GetScreenSizeUnguarded(s, rc, lines) == GetScreenSizeTry(s, rc, lines)
get_screen_size(s, rc, lines) ==
  IF ~s.connected THEN NotConnected(s) ELSE GetScreenSizeTry(s, rc, lines)

\* ------------------------------------------------------------ inputs drawn
Coords == 0..MaxCoord
SwipeArgs == {<<0, 0, MaxCoord, MaxCoord, 5>>, <<10, 300, 200, 300, 3>>}
\* How the primary and the secondary command end; the secondary's outcome is
\* listed once where the primary's outcome keeps it from running.
GestureRuns == {<<"ok", "ok">>, <<"missing", "ok">>} \cup {<<"nonzero", rc2>> : rc2 \in Outcomes}
Str(c1, c2) == <<c1, c2>>
Leaf(t, b) == DictNode(t, <<>>, <<>>, b, NoBounds, <<>>, <<>>)
XYWHBounds(x, y, w, h) == DictBounds([k \in XYWH |->
  CASE k = "x" -> x [] k = "y" -> y [] k = "width" -> w [] OTHER -> h])
LTRBBounds(l, t, r, b) == DictBounds([k \in LTRB |->
  CASE k = "left" -> l [] k = "top" -> t [] k = "right" -> r [] OTHER -> b])

\* Screens the device may show while the session is used.
Screens ==
  { Leaf(Str("a", "b"), XYWHBounds(0, 0, 0, 0)),
    DictNode(<<>>, <<>>, <<>>, NoBounds, NoBounds,
             << Leaf(<<"b">>, NoBounds),
                DictNode(<<>>, Str("A", "B"), <<>>, NoBounds, LTRBBounds(2, 4, 6, 9), <<>>, <<>>) >>,
             <<>>),
    Leaf(Str("a", "b"), OtherBounds),
    Leaf(Str("a", "b"), NoBounds),
    ScalarNode }
Queries == {Str("a", "b"), <<"b">>}

FetchRuns ==
  {FetchRun("ok", TRUE, ui, "ok") : ui \in Screens}
  \cup {FetchRun("ok", FALSE, ScalarNode, "ok")}
  \cup {FetchRun("nonzero", FALSE, ScalarNode, rc2) : rc2 \in Outcomes}
  \cup {FetchRun("missing", FALSE, ScalarNode, "ok")}

\* -------------------------------------------------------------------- state
VARIABLES
  udid,          \* self.udid
  connected,     \* self._connected
  device_info,   \* self._device_info
  pre,           \* the session as it was when the last operation was called
  lastOp,        \* the last operation called
  lastResult,    \* what it returned or raised
  cmdLog,        \* the external commands it ran, in order
  discovered,    \* what list_devices() returned, when lastOp is connect or __enter__
  query,         \* the text, the mode and the hierarchy fetch, when lastOp is tap_by_text
  blockExc,      \* the exception that left the `with` block, when lastOp is __exit__
  scope,         \* "inside" while a `with device:` block is running
  pc,            \* "idle", or "waiting" inside wait_for_element_by_text
  wait,          \* the locals of wait_for_element_by_text, and how its last pass ended
  ld,            \* a list_devices() call: its inputs and its result
  cli,           \* a run of the command line: its inputs and its exit
  rs             \* a _find_element_by_text() call: its inputs, its result, the nodes visited

vars == <<udid, connected, device_info, pre, lastOp, lastResult, cmdLog, discovered, query,
          blockExc, scope, pc, wait, ld, cli, rs>>

Sess == Session(udid, connected, device_info)
NoQuery == [text |-> <<>>, exact_match |-> FALSE, called |-> FALSE,
            f |-> FetchRun("missing", FALSE, ScalarNode, "ok")]
NoWait == [text |-> <<>>, exact_match |-> FALSE, timeout |-> 0, elapsed |-> 0, polls |-> 0,
           last |-> "none"]
NoLd == [enum_rc |-> "ok", lines |-> <<>>, meta |-> <<>>, result |-> NoCall, log |-> <<>>]
NoRs == [ui |-> ScalarNode, text |-> <<>>, exact_match |-> FALSE, called |-> FALSE,
         result |-> <<>>, visited |-> <<>>]
NoCli == [command |-> None, udid |-> None, success |-> FALSE, exit |-> 0,
          escaped |-> None, op |-> NoCall, log |-> <<>>]

\* The session, the call record and the log after an operation that gave r.
ApplyWith(op, r, disc, q, exc) ==
  /\ pre' = Sess
  /\ udid' = r.s.udid
  /\ connected' = r.s.connected
  /\ device_info' = r.s.device_info
  /\ lastOp' = op
  /\ lastResult' = r.result
  /\ cmdLog' = r.log
  /\ discovered' = disc
  /\ query' = q
  /\ blockExc' = exc
  /\ pc' = "idle"
  /\ wait' = NoWait
Apply(op, r) == ApplyWith(op, r, <<>>, NoQuery, None)

Init ==
  /\ udid \in UdidArgs
  /\ connected = FALSE
  /\ device_info = <<>>
  /\ pre = NewSession(udid)
  /\ lastOp = "__init__"
  /\ lastResult = NoCall
  /\ cmdLog = <<>>
  /\ discovered = <<>>
  /\ query = NoQuery
  /\ scope = "outside"
  /\ blockExc = None
  /\ pc = "idle"
  /\ wait = NoWait
  /\ ld = NoLd
  /\ cli = NoCli
  /\ rs = NoRs

Idle == pc = "idle"
Rest == UNCHANGED <<scope, ld, cli, rs>>

Connect ==
  /\ Idle
  /\ \E d \in Discoveries : ApplyWith("connect", connect(Sess, Discovery(d)), d, NoQuery, None)
  /\ Rest

Disconnect ==
  /\ Idle
  /\ Apply("disconnect", disconnect(Sess))
  /\ Rest

ListDevices ==
  /\ Idle
  /\ \E d \in Discoveries : Apply("list_devices", [s |-> Sess] @@ Discovery(d))
  /\ Rest

GetDeviceInfo ==
  /\ Idle
  /\ \E rc \in Outcomes, lines \in InfoOutputs :
       Apply("get_device_info", get_device_info(Sess, rc, lines))
  /\ Rest

InstallApp ==
  /\ Idle
  /\ \E rc \in Outcomes : Apply("install_app", install_app(Sess, rc))
  /\ Rest

UninstallApp ==
  /\ Idle
  /\ \E rc \in Outcomes : Apply("uninstall_app", uninstall_app(Sess, rc))
  /\ Rest

ListApps ==
  /\ Idle
  /\ \E rc \in Outcomes, lines \in AppOutputs : Apply("list_apps", list_apps(Sess, rc, lines))
  /\ Rest

Reboot ==
  /\ Idle
  /\ \E rc \in Outcomes : Apply("reboot", reboot(Sess, rc))
  /\ Rest

Screenshot ==
  /\ Idle
  /\ \E rc \in Outcomes : Apply("screenshot", screenshot(Sess, rc))
  /\ Rest

Tap ==
  /\ Idle
  /\ \E x, y \in Coords, g \in GestureRuns : Apply("tap", tap(Sess, x, y, g[1], g[2]))
  /\ Rest

Swipe ==
  /\ Idle
  /\ \E a \in SwipeArgs, g \in GestureRuns :
       Apply("swipe", swipe(Sess, a[1], a[2], a[3], a[4], a[5], g[1], g[2]))
  /\ Rest

InputText ==
  /\ Idle
  /\ \E g \in GestureRuns : Apply("input_text", input_text(Sess, g[1], g[2]))
  /\ Rest

LongPress ==
  /\ Idle
  /\ \E x, y \in Coords, rc \in Outcomes : Apply("long_press", long_press(Sess, x, y, rc))
  /\ Rest

HomeButton ==
  /\ Idle
  /\ \E g \in GestureRuns : Apply("home_button", home_button(Sess, g[1], g[2]))
  /\ Rest

BackButton ==
  /\ Idle
  /\ \E g \in GestureRuns : Apply("back_button", back_button(Sess, g[1], g[2]))
  /\ Rest

TapByText ==
  /\ Idle
  /\ \E text \in Queries, exact_match \in BOOLEAN, f \in FetchRuns, g \in GestureRuns :
       ApplyWith("tap_by_text", tap_by_text(Sess, text, exact_match, f, g[1], g[2]), <<>>,
                 [text |-> text, exact_match |-> exact_match, called |-> TRUE, f |-> f], None)
  /\ Rest

GetScreenSize ==
  /\ Idle
  /\ \E rc \in Outcomes, lines \in InfoOutputs :
       Apply("get_screen_size", get_screen_size(Sess, rc, lines))
  /\ Rest

\* ------------------------------------------------- wait_for_element_by_text
\* Time is counted in half seconds: time.sleep(0.5) is one tick.
SleepTicks == 1
\* timeout is a number the code does not check (annotated int, default 10):
\* here any number of half seconds, negative ones included.
Timeouts == (0 - 1)..MaxTimeout

\* One pass of `while time.time() - start_time < timeout:` with its body.
\* w holds the locals, log the commands run so far, f and dur what the
\* environment decides for this pass's fetch.
WaitStepSurfacesErrors(w, s, log, f, dur) ==
  IF ~(w.elapsed < w.timeout)
  THEN [done |-> TRUE, result |-> Return(FALSE), w |-> w, log |-> log]
  ELSE LET h == get_ui_hierarchy(s, f)
       IN IF h.result.kind = "raise"
          THEN [done |-> TRUE, result |-> h.result,
                w |-> [w EXCEPT !.polls = @ + 1], log |-> log \o h.log]
          ELSE IF find_element_by_text(h.result.value, w.text, w.exact_match) # <<>>
          THEN [done |-> TRUE, result |-> Return(TRUE),
                w |-> [w EXCEPT !.polls = @ + 1], log |-> log \o h.log]
          ELSE [done |-> FALSE, result |-> NoCall,
                w |-> [w EXCEPT !.polls = @ + 1, !.elapsed = @ + dur + SleepTicks],
                log |-> log \o h.log]
WaitStepPollsBeforeTimeoutCheck(w, s, log, f, dur) ==
  LET h == get_ui_hierarchy(s, f)
      coordinates == IF h.result.kind = "raise" THEN <<>>
                     ELSE find_element_by_text(h.result.value, w.text, w.exact_match)
  IN IF w.polls > 0 /\ ~(w.elapsed < w.timeout)
     THEN [done |-> TRUE, result |-> Return(FALSE), w |-> w, log |-> log]
     ELSE IF coordinates # <<>>
     THEN [done |-> TRUE, result |-> Return(TRUE),
           w |-> [w EXCEPT !.polls = @ + 1], log |-> log \o h.log]
     ELSE [done |-> FALSE, result |-> NoCall,
           w |-> [w EXCEPT !.polls = @ + 1, !.elapsed = @ + dur + SleepTicks],
           log |-> log \o h.log]
wait_step(w, s, log, f, dur) ==
  IF ~(w.elapsed < w.timeout)
  THEN [done |-> TRUE, result |-> Return(FALSE), w |-> w, log |-> log]
  ELSE LET h == get_ui_hierarchy(s, f)
           coordinates == IF h.result.kind = "raise" THEN <<>>
                          ELSE find_element_by_text(h.result.value, w.text, w.exact_match)
       IN IF coordinates # <<>>
          THEN [done |-> TRUE, result |-> Return(TRUE),
                w |-> [w EXCEPT !.polls = @ + 1], log |-> log \o h.log]
          ELSE [done |-> FALSE, result |-> NoCall,
                w |-> [w EXCEPT !.polls = @ + 1, !.elapsed = @ + dur + SleepTicks],
                log |-> log \o h.log]

\* How the body of one pass ended: the fetch or the resolution raised, the
\* resolver gave coordinates, or it gave None.  Recorded in wait.last.
PollOutcome(s, f, text, exact_match) ==
  LET h == get_ui_hierarchy(s, f)
  IN IF h.result.kind = "raise" THEN "raised"
     ELSE IF find_element_by_text(h.result.value, text, exact_match) # <<>> THEN "found"
     ELSE "not_found"

\* The call: the connection check, then start_time = time.time().
WaitStart ==
  /\ Idle
  /\ \E text \in Queries, exact_match \in BOOLEAN, timeout \in Timeouts :
       IF ~connected
       THEN Apply("wait_for_element_by_text", NotConnected(Sess))
       ELSE /\ pre' = Sess
            /\ lastOp' = "wait_for_element_by_text"
            /\ lastResult' = NoCall
            /\ cmdLog' = <<>>
            /\ pc' = "waiting"
            /\ wait' = [text |-> text, exact_match |-> exact_match,
                        timeout |-> timeout, elapsed |-> 0, polls |-> 0,
                        last |-> "none"]
            /\ discovered' = <<>>
            /\ query' = NoQuery
            /\ blockExc' = None
            /\ UNCHANGED <<udid, connected, device_info>>
  /\ UNCHANGED <<scope, ld, cli, rs>>

WaitStep ==
  /\ pc = "waiting"
  /\ \E f \in FetchRuns, dur \in 0..MaxFetchTicks :
       LET r == wait_step(wait, Sess, cmdLog, f, dur)
       IN /\ wait' = [r.w EXCEPT !.last = IF r.w.polls > wait.polls
                                           THEN PollOutcome(Sess, f, wait.text, wait.exact_match)
                                           ELSE @]
          /\ cmdLog' = r.log
          /\ lastResult' = r.result
          /\ pc' = IF r.done THEN "idle" ELSE "waiting"
  /\ UNCHANGED <<udid, connected, device_info, pre, lastOp, discovered, query, blockExc,
                 scope, ld, cli, rs>>

\* --------------------------------------------------------- `with device:`
\* __enter__: connect(), then return self
context_enter(s, run) == connect(s, run)

\* What __exit__ returns, as a truth value: it returns None, which does not
\* suppress the exception that left the block.
ExitSuppressesException == TRUE
exit_returns == FALSE

\* __exit__(exc_type, ...): disconnect(); exc is the exception that left the
\* block (None: the block ended normally), raised again unless suppressed.
context_exit(s, exc) ==
  LET d == disconnect(s)
  IN [s |-> d.s,
      result |-> IF exc # None /\ ~exit_returns THEN Raise(exc) ELSE Return(None),
      log |-> d.log]

WithEnter ==
  /\ Idle
  /\ scope = "outside"
  /\ \E d \in Discoveries :
       LET r == context_enter(Sess, Discovery(d))
       IN /\ ApplyWith("__enter__", r, d, NoQuery, None)
          /\ scope' = IF Returned(r.result) THEN "inside" ELSE "outside"
  /\ UNCHANGED <<ld, cli, rs>>

\* The block is left: normally, by the exception the last operation in it
\* raised, or by an exception of the block's own code.
WithExit ==
  /\ Idle
  /\ scope = "inside"
  /\ \E exc \in {None, OtherError} \cup DomainErrors :
       /\ exc \in DomainErrors => Raised(lastResult, exc)
       /\ ApplyWith("__exit__", context_exit(Sess, exc), <<>>, NoQuery, exc)
  /\ scope' = "outside"
  /\ UNCHANGED <<ld, cli, rs>>

Next ==
  \/ Connect \/ Disconnect \/ ListDevices \/ GetDeviceInfo \/ InstallApp
  \/ UninstallApp \/ ListApps \/ Reboot \/ Screenshot \/ Tap \/ Swipe \/ InputText
  \/ LongPress \/ HomeButton \/ BackButton \/ TapByText \/ GetScreenSize
  \/ WaitStart \/ WaitStep \/ WithEnter \/ WithExit

Spec == Init /\ [][Next]_vars

\* ------------------------------------- wait_for_element_by_text() to its end
\* A session is connected and waits; every pass of a running wait comes to
\* its end (the external command of its fetch returns), so the loop is
\* never left hanging between two passes.
NextWait == Connect \/ WaitStart \/ WaitStep

SpecWait == Init /\ [][NextWait]_vars /\ WF_vars(WaitStep)

\* ------------------------------------- connect() and disconnect() in turns
\* A session created without a udid, IOSDevice() or IOSDevice(udid=""), on
\* which connect() and disconnect() are called in any order: a udid it holds
\* is one that an earlier connect() selected.
InitReconnect == Init /\ ~Truthy(udid)

NextReconnect == Connect \/ Disconnect

SpecReconnect == InitReconnect /\ [][NextReconnect]_vars

\* ------------------------------------------------------ list_devices() alone
\* A host: how the enumeration command ends and what it prints, and how the
\* metadata commands end for each identifier.  list_devices() is then called.
InitDiscovery ==
  /\ udid = None
  /\ connected = FALSE
  /\ device_info = <<>>
  /\ pre = NewSession(None)
  /\ lastOp = "__init__"
  /\ lastResult = NoCall
  /\ cmdLog = <<>>
  /\ discovered = <<>>
  /\ query = NoQuery
  /\ blockExc = None
  /\ scope = "outside"
  /\ pc = "idle"
  /\ wait = NoWait
  /\ cli = NoCli
  /\ rs = NoRs
  /\ \E e \in Outcomes, l \in LineSeqs, m \in MetaSeqs :
       ld = [enum_rc |-> e, lines |-> l, meta |-> m, result |-> NoCall, log |-> <<>>]

CallListDevices ==
  /\ ld.result.kind = "none"
  /\ LET r == list_devices(ld.enum_rc, ld.lines, ld.meta)
     IN ld' = [ld EXCEPT !.result = r.result, !.log = r.log]
  /\ UNCHANGED <<udid, connected, device_info, pre, lastOp, lastResult, cmdLog, discovered,
                 query, blockExc, scope, pc, wait, cli, rs>>

NextDiscovery == CallListDevices

SpecDiscovery == InitDiscovery /\ [][NextDiscovery]_vars

\* ------------------------------------------- _find_element_by_text() alone
MaxOffset == 2         \* the integers of a bounds value range over -MaxOffset..MaxOffset
MaxKids == 2           \* children of the root of a sample hierarchy
Offsets == (0 - MaxOffset)..MaxOffset
SeqsUpTo(S, n) == UNION {[1..k -> S] : k \in 0..n}

\* Bounds values of every encoding the code tells apart.
SomeKeys(keys, v) == DictBounds([k \in keys |-> v])
SampleBounds ==
  {XYWHBounds(x, y, w, h) : x, y, w, h \in Offsets}
  \cup {LTRBBounds(l, t, r, b) : l, t, r, b \in Offsets}
  \cup {ListBounds(<<a, b, c, d>>) : a, b, c, d \in 0..MaxOffset}
  \cup {ListBounds(<<0 - a, 0 - b, c, 0 - d>>) : a, b, c, d \in 1..MaxOffset}
  \cup {DictBounds([k \in XYWH \cup LTRB |-> IF k \in XYWH THEN v ELSE v + 3]) : v \in Offsets}
  \cup {SomeKeys({"x", "y"}, 7), SomeKeys({"left", "top", "right"}, 7), SomeKeys({}, 0),
        ListBounds(<<>>), ListBounds(<<1, 2>>), ListBounds(<<1, 2, 3>>),
        ListBounds(<<1, 2, 5, 8, 9>>), OtherBounds, NoBounds}

\* One element carrying the text "ab" and a sample bounds value, under either key.
BoundsSamples ==
  {Leaf(Str("a", "b"), b) : b \in SampleBounds}
  \cup {DictNode(Str("a", "b"), <<>>, <<>>, NoBounds, b, <<>>, <<>>) :
          b \in {XYWHBounds(1, 2, 1, 0 - 1), SomeKeys({"x", "y"}, 7), NoBounds}}

\* Elements of a sample hierarchy: texts that are the query "ab", contain it,
\* are contained in it or differ from it in case, with and without bounds.
HitA == Leaf(Str("a", "b"), XYWHBounds(0, 0, 2, 2))
HitLabel == DictNode(<<>>, Str("A", "B"), <<>>, NoBounds, LTRBBounds(2, 4, 6, 9), <<>>, <<>>)
HitName == DictNode(<<>>, <<>>, <<"a", "b", "b">>, XYWHBounds(6, 6, 2, 2), NoBounds, <<>>, <<>>)
HitNoBounds == Leaf(Str("a", "b"), NoBounds)
HitOddBounds == Leaf(Str("a", "b"), SomeKeys({"x", "y"}, 7))
Part == Leaf(<<"a">>, XYWHBounds(4, 4, 2, 2))
NoText == Leaf(<<>>, XYWHBounds(8, 8, 2, 2))
SampleLeaves == {HitA, HitLabel, HitName, HitNoBounds, HitOddBounds, Part, NoText}
\* A matching element without bounds that has children
Above(kids) == DictNode(Str("a", "b"), <<>>, <<>>, NoBounds, NoBounds, kids, <<>>)
SampleKids ==
  SampleLeaves \cup {Above(<<l>>) : l \in SampleLeaves} \cup {ListNode(<<l>>) : l \in SampleLeaves}
\* The sample hierarchies whose root has at most n children.
SampleTrees(n) ==
  UNION {{ ListNode(kids),
           Above(kids),
           DictNode(<<>>, <<>>, <<>>, NoBounds, NoBounds, <<>>, kids),
           DictNode(<<"b">>, <<>>, <<>>, NoBounds, SomeKeys({}, 0), kids, <<HitA>>) } :
         kids \in SeqsUpTo(SampleKids, n)}
\* Elements that differ in the fields they carry: every combination of the
\* three text fields over no text, the text "ab" and the text "a"; and
\* elements with children, elements, both or neither, a "children" key
\* holding an empty list included.
FieldSamples ==
  LET texts == {<<>>, Str("a", "b"), <<"a">>}
      lists == {<<>>, <<HitA>>, <<Part>>, <<Part, HitName>>}
  IN {DictNode(t, l, n, XYWHBounds(0, 0, 2, 2), NoBounds, <<>>, <<>>) : t, l, n \in texts}
     \cup {DictNode(<<>>, <<>>, <<>>, NoBounds, NoBounds, c, e) : c, e \in lists}
     \cup {[DictNode(<<>>, <<>>, <<>>, NoBounds, NoBounds, <<>>, e)
               EXCEPT !.empty_lists = {"children"}] : e \in lists}
ResolverInputs(n) == BoundsSamples \cup SampleTrees(n) \cup FieldSamples \cup {ScalarNode}
\* text: any string, the empty one included
ResolverQueries == Queries \cup {<<>>}

InitResolver ==
  /\ udid = None
  /\ connected = FALSE
  /\ device_info = <<>>
  /\ pre = NewSession(None)
  /\ lastOp = "__init__"
  /\ lastResult = NoCall
  /\ cmdLog = <<>>
  /\ discovered = <<>>
  /\ query = NoQuery
  /\ blockExc = None
  /\ scope = "outside"
  /\ pc = "idle"
  /\ wait = NoWait
  /\ ld = NoLd
  /\ cli = NoCli
  /\ \E ui \in ResolverInputs(MaxKids), text \in ResolverQueries, exact_match \in BOOLEAN :
       rs = [ui |-> ui, text |-> text, exact_match |-> exact_match, called |-> FALSE,
             result |-> <<>>, visited |-> <<>>]

CallFindElement ==
  /\ ~rs.called
  /\ LET r == search_recursive(rs.ui, rs.text, rs.exact_match)
     IN rs' = [rs EXCEPT !.called = TRUE, !.result = r.result, !.visited = r.visited]
  /\ UNCHANGED <<udid, connected, device_info, pre, lastOp, lastResult, cmdLog, discovered,
                 query, blockExc, scope, pc, wait, ld, cli>>

NextResolver == CallFindElement

SpecResolver == InitResolver /\ [][NextResolver]_vars

\* ------------------------------------------------------- command line (cli.py)
\* with IOSDevice(udid=u) as device: <body>
\* d is what list_devices() returns to __enter__'s connect(); e is what
\* __enter__ gave and b what the body gave on the session e.s (the body does
\* not run when __enter__ raised).
EnterDevice(u, d) == context_enter(NewSession(u), Discovery(d))
WithDevice(e, b) ==
  IF e.result.kind = "raise" THEN [s |-> e.s, result |-> e.result, log |-> e.log]
  ELSE LET x == context_exit(b.s, IF b.result.kind = "raise" THEN b.result.error ELSE None)
       IN [s |-> x.s,
           result |-> IF x.result.kind = "raise" THEN x.result ELSE b.result,
           log |-> b.log]

\* The handlers every cmd_* function wraps its block in:
\* except DeviceNotFoundError: return False
\* except IOSConnectionError: return False
\* and `return True` after the block.  escaped is the exception no handler took.
CaughtErrors == {DeviceNotFoundError, IOSConnectionError}
TryBlock(r) ==
  [success |-> r.result.kind = "return",
   escaped |-> IF r.result.kind = "raise" /\ r.result.error \notin CaughtErrors
               THEN r.result.error ELSE None,
   op |-> r.result, log |-> r.log]

\* What the environment decides during one run of the command line.
Env(rc, g, f, info, apps) == [rc |-> rc, g |-> g, f |-> f, info |-> info, apps |-> apps]

cmd_list_devices(d) ==
  [success |-> Len(d) > 0, escaped |-> None, op |-> Return(d), log |-> <<>>]
cmd_device_info(u, d, env) ==
  LET e == EnterDevice(u, d)
  IN TryBlock(WithDevice(e, get_device_info(e.s, env.rc, env.info)))
cmd_screenshot(u, d, env) ==
  LET e == EnterDevice(u, d)
  IN TryBlock(WithDevice(e, screenshot(e.s, env.rc)))
cmd_list_apps(u, d, env) ==
  LET e == EnterDevice(u, d)
  IN TryBlock(WithDevice(e, list_apps(e.s, env.rc, env.apps)))
cmd_tap(u, d, x, y, env) ==
  LET e == EnterDevice(u, d)
  IN TryBlock(WithDevice(e, tap(e.s, x, y, env.g[1], env.g[2])))
\* `if device.tap_by_text(...): ... else: return False`: tap_by_text returns True or raises
cmd_tap_text(u, d, text, exact, env) ==
  LET e == EnterDevice(u, d)
  IN TryBlock(WithDevice(e, tap_by_text(e.s, text, exact, env.f, env.g[1], env.g[2])))
cmd_swipe(u, d, a, env) ==
  LET e == EnterDevice(u, d)
  IN TryBlock(WithDevice(e, swipe(e.s, a[1], a[2], a[3], a[4], a[5], env.g[1], env.g[2])))
cmd_input_text(u, d, env) ==
  LET e == EnterDevice(u, d)
  IN TryBlock(WithDevice(e, input_text(e.s, env.g[1], env.g[2])))
cmd_home_button(u, d, env) ==
  LET e == EnterDevice(u, d)
  IN TryBlock(WithDevice(e, home_button(e.s, env.g[1], env.g[2])))
cmd_back_button(u, d, env) ==
  LET e == EnterDevice(u, d)
  IN TryBlock(WithDevice(e, back_button(e.s, env.g[1], env.g[2])))
cmd_long_press(u, d, x, y, env) ==
  LET e == EnterDevice(u, d)
  IN TryBlock(WithDevice(e, long_press(e.s, x, y, env.rc)))

Commands == {"devices", "info", "screenshot", "apps", "tap", "tap-text", "swipe", "input",
             "home", "back", "longpress"}

\* main(): the dispatch on args.command and `return 0 if success else 1`.  An
\* exception that escapes main() ends the process with a traceback and status 1.
main(command, u, d, env) ==
  LET c == CASE command = "devices" -> cmd_list_devices(d)
             [] command = "info" -> cmd_device_info(u, d, env)
             [] command = "screenshot" -> cmd_screenshot(u, d, env)
             [] command = "apps" -> cmd_list_apps(u, d, env)
             [] command = "tap" -> cmd_tap(u, d, 0, MaxCoord, env)
             [] command = "tap-text" -> cmd_tap_text(u, d, Str("a", "b"), FALSE, env)
             [] command = "swipe" -> cmd_swipe(u, d, <<0, 0, MaxCoord, MaxCoord, 5>>, env)
             [] command = "input" -> cmd_input_text(u, d, env)
             [] command = "home" -> cmd_home_button(u, d, env)
             [] command = "back" -> cmd_back_button(u, d, env)
             [] OTHER -> cmd_long_press(u, d, 0, MaxCoord, env)
  IN [command |-> command, udid |-> u, success |-> c.success,
      exit |-> IF c.success THEN 0 ELSE 1, escaped |-> c.escaped, op |-> c.op, log |-> c.log]

\* The inputs that matter to each command, the others held fixed.
OkFetch == FetchRun("ok", TRUE, Leaf(Str("a", "b"), XYWHBounds(0, 0, 0, 0)), "ok")
CliEnvs(command) ==
  CASE command = "devices" -> {Env("ok", <<"ok", "ok">>, OkFetch, <<>>, <<>>)}
    [] command = "info" ->
         {Env(rc, <<"ok", "ok">>, OkFetch, l, <<>>) : rc \in Outcomes, l \in InfoOutputs}
    [] command = "apps" ->
         {Env(rc, <<"ok", "ok">>, OkFetch, <<>>, l) : rc \in Outcomes, l \in AppOutputs}
    [] command \in {"screenshot", "longpress"} ->
         {Env(rc, <<"ok", "ok">>, OkFetch, <<>>, <<>>) : rc \in Outcomes}
    [] command = "tap-text" ->
         {Env("ok", g, f, <<>>, <<>>) : g \in GestureRuns, f \in FetchRuns}
    [] OTHER -> {Env("ok", g, OkFetch, <<>>, <<>>) : g \in GestureRuns}

InitCli ==
  /\ udid = None
  /\ connected = FALSE
  /\ device_info = <<>>
  /\ pre = NewSession(None)
  /\ lastOp = "__init__"
  /\ lastResult = NoCall
  /\ cmdLog = <<>>
  /\ discovered = <<>>
  /\ query = NoQuery
  /\ blockExc = None
  /\ scope = "outside"
  /\ pc = "idle"
  /\ wait = NoWait
  /\ ld = NoLd
  /\ cli = NoCli
  /\ rs = NoRs

\* One run of the command line: `ios-control [--udid U] <command> ...`.
CliMain ==
  /\ cli.command = None
  /\ \E command \in Commands, u \in UdidArgs, d \in Discoveries :
       \E env \in CliEnvs(command) : cli' = main(command, u, d, env)
  /\ UNCHANGED <<udid, connected, device_info, pre, lastOp, lastResult, cmdLog, discovered,
                 query, blockExc, scope, pc, wait, ld, rs>>

NextCli == CliMain

SpecCli == InitCli /\ [][NextCli]_vars

\* =================================================================== claims

\* ---- C1 (Spec) ----------------------------------------------------------
\* The discovery list leaves connect() nothing to select: it is empty, or a
\* udid was requested and no record in it carries that udid.
NothingToSelect(s, devices) ==
  Len(devices) = 0 \/ (Truthy(s.udid) /\ FirstWithUdid(devices, s.udid) = 0)

\* C1 as stated: a connect() given an empty discovery list, or a requested
\* udid that is absent from a non-empty list, raises DeviceNotFoundError.
C1_ConnectRaisesDeviceNotFound ==
  (lastOp = "connect" /\ NothingToSelect(pre, discovered))
    => Raised(lastResult, DeviceNotFoundError)

\* ---- C2 (Spec) ----------------------------------------------------------
DeviceBoundOps ==
  {"get_device_info", "install_app", "uninstall_app", "list_apps", "reboot", "screenshot",
   "tap", "swipe", "input_text", "long_press", "home_button", "back_button", "tap_by_text",
   "wait_for_element_by_text", "get_screen_size"}

\* C2: a device-bound operation called while the session is not connected
\* raises IOSConnectionError and has run no external command.
C2_NotConnectedFailsBeforeAnyCommand ==
  (lastOp \in DeviceBoundOps /\ ~pre.connected)
    => /\ Raised(lastResult, IOSConnectionError)
       /\ cmdLog = <<>>
       /\ pc = "idle"

\* get_screen_size() was called on a session that is not connected.
C2_Witness ==
  /\ lastOp = "get_screen_size"
  /\ ~pre.connected
  /\ Raised(lastResult, IOSConnectionError)

\* ---- C3 (Spec) ----------------------------------------------------------
\* C3: when a `with` block has been left, normally or by an exception, the
\* session is not connected, holds no device record, and the exception that
\* left the block is raised to the caller.
C3_ScopeExitTearsDown ==
  lastOp = "__exit__"
    => /\ ~connected
       /\ device_info = <<>>
       /\ scope = "outside"
       /\ blockExc # None => Raised(lastResult, blockExc)
       /\ blockExc = None => Returned(lastResult)

\* An operation inside the block raised, and the block was left by its
\* exception while the session was connected.
C3_Witness ==
  /\ lastOp = "__exit__"
  /\ pre.connected
  /\ blockExc = UnsupportedOperationError
  /\ Raised(lastResult, UnsupportedOperationError)

\* ---- C4 (Spec) ----------------------------------------------------------
\* C4: a connect() that succeeds returns True, leaves the session connected
\* with one cached record of the discovery list: with no udid requested the
\* first record, whose udid becomes the session's; with a udid requested a
\* record carrying that udid, the session's udid unchanged.
C4_ConnectSelectsRecord ==
  (lastOp = "connect" /\ Returned(lastResult))
    => /\ lastResult.value = TRUE
       /\ connected
       /\ Len(device_info) = 1
       /\ Len(discovered) > 0
       /\ IF Truthy(pre.udid)
          THEN /\ udid = pre.udid
               /\ device_info[1].udid = pre.udid
               /\ \E i \in 1..Len(discovered) : discovered[i] = device_info[1]
          ELSE /\ device_info[1] = discovered[1]
               /\ udid = discovered[1].udid

\* connect() succeeded with no udid requested and two different devices listed.
C4_Witness ==
  /\ lastOp = "connect"
  /\ Returned(lastResult)
  /\ pre.udid = None
  /\ Len(discovered) = 2
  /\ discovered[1].udid # discovered[2].udid

\* ---- C5 (Spec) ----------------------------------------------------------
\* C5: disconnect() returns without raising, leaves the session not connected
\* with no cached record, and changes nothing when the session was already
\* in that state (a second call, or a call on a session never connected).
C5_DisconnectClearsAndIsIdempotent ==
  lastOp = "disconnect"
    => /\ Returned(lastResult)
       /\ ~connected
       /\ device_info = <<>>
       /\ (~pre.connected /\ pre.device_info = <<>>) => Sess = pre
       /\ disconnect(Sess).s = Sess

\* disconnect() was called on a connected session.
C5_Witness ==
  /\ lastOp = "disconnect"
  /\ pre.connected
  /\ Len(pre.device_info) = 1

\* ---- C6 (Spec) ----------------------------------------------------------
FallbackOps == {"tap", "swipe", "input_text", "home_button"}
SecondaryRan == Len(cmdLog) = 2 /\ cmdLog[2].tool = "tidevice"

\* C6: on a connected session tap, swipe, input_text and home_button run the
\* primary command; when it exits non-zero they run the secondary command;
\* they return True iff the primary succeeded or it exited non-zero and the
\* secondary succeeded; a non-zero primary with a failed secondary raises
\* IOSConnectionError.
C6_FallbackOnNonZeroExit ==
  (lastOp \in FallbackOps /\ pre.connected)
    => /\ Len(cmdLog) >= 1
       /\ cmdLog[1].tool = "pymobiledevice3"
       /\ cmdLog[1].rc = "nonzero" => SecondaryRan
       /\ (Returned(lastResult) /\ lastResult.value = TRUE)
            <=> \/ cmdLog[1].rc = "ok"
                \/ cmdLog[1].rc = "nonzero" /\ SecondaryRan /\ cmdLog[2].rc = "ok"
       /\ (cmdLog[1].rc = "nonzero" /\ SecondaryRan /\ cmdLog[2].rc # "ok")
            => Raised(lastResult, IOSConnectionError)

\* A swipe whose primary command exited non-zero and whose secondary binary
\* is missing.
C6_Witness ==
  /\ lastOp = "swipe"
  /\ pre.connected
  /\ SecondaryRan
  /\ cmdLog[1].rc = "nonzero"
  /\ cmdLog[2].rc = "missing"
  /\ Raised(lastResult, IOSConnectionError)

\* ---- C7 (SpecCli) -------------------------------------------------------
\* The device operation of a run succeeded: the block returned (for
\* `devices`: a device was listed).
CliOperationSucceeded ==
  /\ cli.op.kind = "return"
  /\ cli.command = "devices" => Len(cli.op.value) > 0

\* C7 as stated: a run exits 0 iff its device operation succeeded and 1
\* otherwise, and no domain error escapes the command line layer.
C7_CliCatchesEveryDomainError ==
  cli.command # None
    => /\ cli.exit = 0 <=> CliOperationSucceeded
       /\ cli.exit \in {0, 1}
       /\ (cli.op.kind = "raise" /\ cli.op.error \in DomainErrors) => cli.escaped = None

\* ---- C8 (SpecDiscovery) -------------------------------------------------
\* The metadata lookup of the i-th identifier failed: a command of it that
\* ran did not exit with status 0.
MetaFailed(m) == m.name_rc # "ok" \/ m.version_rc # "ok"

\* C8 as stated: when the enumeration command succeeds, list_devices()
\* returns one record per non-empty line, in order, each the placeholder
\* when its metadata lookup failed and the looked-up record otherwise.
C8_OneRecordPerIdentifier ==
  (ld.result.kind # "none" /\ ld.enum_rc = "ok")
    => LET ids == NonEmptyLines(ld.lines)
       IN /\ Returned(ld.result)
          /\ Len(ld.result.value) = Len(ids)
          /\ \A i \in 1..Len(ids) :
               ld.result.value[i] =
                 IF MetaFailed(ld.meta[i]) THEN Placeholder(ids[i])
                 ELSE DeviceRecord(ids[i], ld.meta[i].name, ld.meta[i].version)

\* ---- C9 (SpecDiscovery) -------------------------------------------------
\* C9: when the enumeration binary is missing, or the enumeration command
\* exits non-zero, list_devices() returns the empty list and raises nothing.
C9_NoEnumerationGivesEmptyList ==
  (ld.result.kind # "none" /\ ld.enum_rc \in {"missing", "nonzero"})
    => ld.result = Return(<<>>)

\* list_devices() has returned on a host without the enumeration binary.
C9_Witness ==
  /\ ld.enum_rc = "missing"
  /\ Returned(ld.result)
  /\ Len(ld.log) = 1

\* ---- C10 (Spec) ---------------------------------------------------------
\* What the resolver gives for the hierarchy the last tap_by_text fetched
\* (<<>>: the fetch failed or nothing matched).
Resolved ==
  LET h == get_ui_hierarchy(pre, query.f)
  IN IF h.result.kind = "raise" THEN <<>>
     ELSE find_element_by_text(h.result.value, query.text, query.exact_match)
IsTapCmd(c) == c.op = "tap"
IsFetchCmd(c) == c.op \in {"ui", "dump-hierarchy"}

\* C10: tap_by_text on a connected session first fetches the hierarchy;
\* every tap command it then issues carries exactly the resolved
\* coordinates, one is issued when the text resolves, and when nothing
\* resolves the call raises and no tap command is issued.
C10_TapByTextTapsResolvedPoint ==
  (lastOp = "tap_by_text" /\ pre.connected)
    => /\ Len(cmdLog) >= 1 /\ IsFetchCmd(cmdLog[1])
       /\ \A i \in 1..Len(cmdLog) :
            IsTapCmd(cmdLog[i])
              => /\ cmdLog[i].args = Resolved
                 /\ \E j \in 1..(i - 1) : IsFetchCmd(cmdLog[j])
       /\ Resolved # <<>> => \E i \in 1..Len(cmdLog) : IsTapCmd(cmdLog[i])
       /\ Resolved = <<>>
            => /\ lastResult.kind = "raise"
               /\ \A i \in 1..Len(cmdLog) : ~IsTapCmd(cmdLog[i])

\* A tap_by_text that resolved the text to the point (0, 0) and tapped it.
C10_Witness ==
  /\ lastOp = "tap_by_text"
  /\ pre.connected
  /\ Resolved = <<0, 0>>
  /\ Returned(lastResult)
  /\ \E i \in 1..Len(cmdLog) : IsTapCmd(cmdLog[i]) /\ cmdLog[i].args = <<0, 0>>

\* ---- C11 (Spec) ---------------------------------------------------------
WaitCalled == lastOp = "wait_for_element_by_text" /\ pre.connected

\* C11: wait_for_element_by_text on a connected session never raises; a pass
\* whose fetch or resolution raised leaves the call polling like a pass that
\* found nothing; the call returns True exactly when its last pass found a
\* match, and False otherwise.
C11_WaitSwallowsPollErrors ==
  WaitCalled
    => /\ lastResult.kind # "raise"
       /\ pc = "waiting" => lastResult = NoCall /\ wait.last # "found"
       /\ pc = "idle" => lastResult \in {Return(TRUE), Return(FALSE)}
       /\ lastResult = Return(TRUE) <=> wait.last = "found"

\* The first pass could not start the hierarchy command, the call went on
\* polling, and a later pass found the text.
C11_Witness ==
  /\ WaitCalled
  /\ wait.polls >= 2
  /\ cmdLog[1].rc = "missing"
  /\ wait.last = "found"
  /\ lastResult = Return(TRUE)

\* ---- C12 (SpecResolver) -------------------------------------------------
\* The text and the bounds search_recursive reads off a mapping element, and
\* the collection it descends into.
NodeText(n) == OrSeq(n.text, OrSeq(n.label, n.name))
NodeBounds(n) == OrBounds(n.bounds, n.frame)
Kids(n) ==
  CASE n.type = "dict" -> OrSeq(n.children, n.elements)
    [] n.type = "list" -> n.items
    [] OTHER -> <<>>

\* The nodes of a hierarchy in depth-first pre-order.
RECURSIVE PreOrder(_)
RECURSIVE PreOrderAll(_, _)
PreOrderAll(nodes, i) ==
  IF i > Len(nodes) THEN <<>> ELSE PreOrder(nodes[i]) \o PreOrderAll(nodes, i + 1)
PreOrder(n) == <<n>> \o PreOrderAll(Kids(n), 1)

\* A mapping element whose text matches and that carries a non-empty bounds value.
Accepted(n, text, exact_match) ==
  /\ n.type = "dict"
  /\ TextMatches(NodeText(n), text, exact_match)
  /\ BoundsTruthy(NodeBounds(n))
AcceptedAt(ui, text, exact_match) ==
  {i \in 1..Len(PreOrder(ui)) : Accepted(PreOrder(ui)[i], text, exact_match)}
FirstOf(S) == CHOOSE i \in S : \A j \in S : i <= j

\* C12: the resolver visits the nodes in depth-first pre-order; it returns the
\* center of the first node in that order whose text matches and that has
\* bounds, having visited exactly the nodes up to that one; with no such
\* node it visits every node and returns None.
C12_FirstMatchInPreOrderWins ==
  rs.called
    => LET po == PreOrder(rs.ui)
           hits == AcceptedAt(rs.ui, rs.text, rs.exact_match)
       IN IF hits = {}
          THEN rs.result = <<>> /\ rs.visited = po
          ELSE /\ rs.result = get_center_coordinates(NodeBounds(po[FirstOf(hits)]))
               /\ rs.visited = SubSeq(po, 1, FirstOf(hits))

\* A hierarchy with two matching nodes of different centers, the second one
\* never visited.
C12_Witness ==
  /\ rs.called
  /\ LET po == PreOrder(rs.ui)
         hits == AcceptedAt(rs.ui, rs.text, rs.exact_match)
     IN /\ \E i, j \in hits :
             /\ i < j
             /\ get_center_coordinates(NodeBounds(po[i]))
                  # get_center_coordinates(NodeBounds(po[j]))
             /\ rs.result = get_center_coordinates(NodeBounds(po[i]))
        /\ Len(rs.visited) < Len(po)

\* ---- C13 (SpecResolver) -------------------------------------------------
\* The resolver accepted the i-th node it visited: it stopped there with a
\* result.
AcceptedVisit(i) == i = Len(rs.visited) /\ rs.result # <<>>
\* The visited nodes the match rule decides: mappings with a non-empty bounds value.
DecidedByText ==
  {i \in 1..Len(rs.visited) :
     rs.visited[i].type = "dict" /\ BoundsTruthy(NodeBounds(rs.visited[i]))}
ProperPart(a, b) == a # b /\ IsSubstring(a, b)

\* C13 as stated: with exact_match a node is accepted only when its text
\* equals the query, never when one is a proper substring of the other;
\* without it a node is accepted iff the lower-cased query is a substring of
\* the lower-cased node text.
C13_MatchRuleAsStated ==
  rs.called
    => \A i \in DecidedByText :
         LET t == NodeText(rs.visited[i])
         IN IF rs.exact_match
            THEN /\ AcceptedVisit(i) => t = rs.text
                 /\ (ProperPart(t, rs.text) \/ ProperPart(rs.text, t)) => ~AcceptedVisit(i)
            ELSE AcceptedVisit(i) <=> IsSubstring(Lower(rs.text), Lower(t))

\* C13 amended: a node without text (none of text, label, name non-empty) is
\* never accepted; a node with text is accepted, with exact_match, iff its
\* text equals the query, and without it iff the lower-cased query is a
\* substring of the lower-cased text.
C13_MatchRule ==
  rs.called
    => \A i \in DecidedByText :
         LET t == NodeText(rs.visited[i])
         IN AcceptedVisit(i)
              <=> /\ t # <<>>
                  /\ IF rs.exact_match THEN t = rs.text
                     ELSE IsSubstring(Lower(rs.text), Lower(t))

\* With exact_match a node whose text differs from the query only in case
\* was passed over, and a later node with the query's text was accepted.
C13_Witness ==
  /\ rs.called
  /\ rs.exact_match
  /\ rs.text = Str("a", "b")
  /\ \E i \in DecidedByText :
       /\ NodeText(rs.visited[i]) = Str("A", "B")
       /\ ~AcceptedVisit(i)
  /\ AcceptedVisit(Len(rs.visited))

\* ---- C14 (SpecResolver) -------------------------------------------------
\* The positions, in pre-order, of the nodes whose text matches.
MatchingAt(ui, text, exact_match) ==
  {i \in 1..Len(PreOrder(ui)) :
     /\ PreOrder(ui)[i].type = "dict"
     /\ TextMatches(NodeText(PreOrder(ui)[i]), text, exact_match)}
\* The bounds of the only node whose text matches (NoBounds when there is
\* none, or more than one).
OnlyMatchBounds ==
  LET at == MatchingAt(rs.ui, rs.text, rs.exact_match)
  IN IF Cardinality(at) = 1 THEN NodeBounds(PreOrder(rs.ui)[FirstOf(at)]) ELSE NoBounds
HasKeys(b, keys) == b.type = "dict" /\ keys \subseteq DOMAIN b.map
\* floor(n / 2): the integer q with 2q <= n < 2q + 2
Half(n) ==
  LET a == IF n < 0 THEN 0 - n ELSE n
  IN CHOOSE q \in (0 - a - 1)..a : 2 * q <= n /\ n < 2 * q + 2

\* C14: when exactly one node matches and it carries x, y, width, height
\* bounds, the resolver returns (x + floor(width/2), y + floor(height/2)).
C14_CenterOfXYWH ==
  (rs.called /\ HasKeys(OnlyMatchBounds, XYWH))
    => LET m == OnlyMatchBounds.map
       IN rs.result = <<m["x"] + Half(m["width"]), m["y"] + Half(m["height"])>>

\* A match with a negative odd width and height, where flooring and
\* truncating differ.
C14_Witness ==
  /\ rs.called
  /\ HasKeys(OnlyMatchBounds, XYWH)
  /\ OnlyMatchBounds.map["width"] = 0 - 1
  /\ OnlyMatchBounds.map["height"] = 0 - 1
  /\ rs.result = <<OnlyMatchBounds.map["x"] - 1, OnlyMatchBounds.map["y"] - 1>>

\* ---- C15 (SpecResolver) -------------------------------------------------
\* The bounds of the first node in pre-order whose text matches and that has
\* a non-empty bounds value (NoBounds when there is none).
FirstAcceptedBounds ==
  LET at == AcceptedAt(rs.ui, rs.text, rs.exact_match)
  IN IF at = {} THEN NoBounds ELSE NodeBounds(PreOrder(rs.ui)[FirstOf(at)])

\* C15: when the matching node the resolver stops at carries left, top,
\* right, bottom bounds without a complete x, y, width, height set, the
\* resolver returns (floor((left+right)/2), floor((top+bottom)/2)).
C15_CenterOfLTRB ==
  (rs.called /\ HasKeys(FirstAcceptedBounds, LTRB) /\ ~HasKeys(FirstAcceptedBounds, XYWH))
    => LET m == FirstAcceptedBounds.map
       IN rs.result = <<Half(m["left"] + m["right"]), Half(m["top"] + m["bottom"])>>

\* A match whose left + right and top + bottom are negative and odd.
C15_Witness ==
  /\ rs.called
  /\ HasKeys(FirstAcceptedBounds, LTRB)
  /\ ~HasKeys(FirstAcceptedBounds, XYWH)
  /\ FirstAcceptedBounds.map["left"] + FirstAcceptedBounds.map["right"] = 0 - 3
  /\ FirstAcceptedBounds.map["top"] + FirstAcceptedBounds.map["bottom"] = 0 - 1
  /\ rs.result = <<0 - 2, 0 - 1>>

\* ---- C16 (SpecResolver) -------------------------------------------------
\* The positions, in pre-order, of the nodes whose text matches and whose
\* bounds are absent or empty.
MatchingWithoutBoundsAt(ui, text, exact_match) ==
  {i \in MatchingAt(ui, text, exact_match) : ~BoundsTruthy(NodeBounds(PreOrder(ui)[i]))}

\* C16: a node whose text matches but whose bounds are absent or empty is
\* never the node the resolver stops at and gives no coordinates of its own;
\* the traversal goes on through its children and the nodes after it: with
\* a later matching node with bounds the result is that node's center, and
\* without one every node is visited and the result is None.
C16_MatchWithoutBoundsIsPassedOver ==
  (rs.called /\ MatchingWithoutBoundsAt(rs.ui, rs.text, rs.exact_match) # {})
    => LET po == PreOrder(rs.ui)
           hits == AcceptedAt(rs.ui, rs.text, rs.exact_match)
       IN /\ \A i \in 1..Len(rs.visited) :
               (rs.visited[i].type = "dict" /\ ~BoundsTruthy(NodeBounds(rs.visited[i])))
                 => ~AcceptedVisit(i)
          /\ hits = {} => rs.result = <<>> /\ rs.visited = po
          /\ hits # {} => /\ rs.result = get_center_coordinates(NodeBounds(po[FirstOf(hits)]))
                          /\ rs.visited = SubSeq(po, 1, FirstOf(hits))

\* A matching node without bounds was passed over and a matching child of
\* it, with bounds, was found.
C16_Witness ==
  /\ rs.called
  /\ rs.result # <<>>
  /\ rs.result # Fallback
  /\ \E i \in MatchingWithoutBoundsAt(rs.ui, rs.text, rs.exact_match) :
       /\ i < Len(rs.visited)
       /\ Kids(PreOrder(rs.ui)[i]) # <<>>
       /\ rs.visited[Len(rs.visited)] = Kids(PreOrder(rs.ui)[i])[1]

\* ---- C17 (SpecResolver) -------------------------------------------------
\* The bounds of the first node in pre-order whose text matches (NoBounds
\* when no node matches).
FirstMatchBounds ==
  LET at == MatchingAt(rs.ui, rs.text, rs.exact_match)
  IN IF at = {} THEN NoBounds ELSE NodeBounds(PreOrder(rs.ui)[FirstOf(at)])
\* The unrecognized shapes the claim names: a non-empty mapping with neither
\* complete key set, a non-empty sequence shorter than 4.
UnrecognizedAsStated(b) ==
  \/ b.type = "dict" /\ DOMAIN b.map # {} /\ ~HasKeys(b, XYWH) /\ ~HasKeys(b, LTRB)
  \/ b.type = "list" /\ Len(b.items) > 0 /\ Len(b.items) < 4
\* Every non-empty bounds value the decoder has no branch for.
Unrecognized(b) ==
  /\ BoundsTruthy(b)
  /\ ~HasKeys(b, XYWH)
  /\ ~HasKeys(b, LTRB)
  /\ ~(b.type = "list" /\ Len(b.items) >= 4)

\* C17 as stated: the resolver returns (100, 100) exactly when the first
\* node in pre-order whose text matches carries a non-empty mapping with
\* neither complete key set or a sequence shorter than 4.
C17_FallbackAsStated ==
  rs.called => (rs.result = Fallback <=> UnrecognizedAsStated(FirstMatchBounds))

\* C17 amended: the resolver returns (100, 100) exactly when the first node
\* in pre-order whose text matches and that carries a non-empty bounds
\* value has a bounds value the decoder has no branch for (the two shapes
\* above, or a value that is neither mapping nor list); it then stops at
\* that node.
C17_FallbackOnlyForUnrecognizedBounds ==
  rs.called
    => /\ rs.result = Fallback <=> Unrecognized(FirstAcceptedBounds)
       /\ rs.result = Fallback
            => rs.visited = SubSeq(PreOrder(rs.ui), 1,
                                   FirstOf(AcceptedAt(rs.ui, rs.text, rs.exact_match)))

\* The resolver stopped with (100, 100) at a node of unrecognized bounds,
\* after a matching node without bounds and before the rest of the hierarchy.
C17_Witness ==
  /\ rs.called
  /\ rs.result = Fallback
  /\ FirstMatchBounds = NoBounds
  /\ Unrecognized(FirstAcceptedBounds)
  /\ Len(rs.visited) < Len(PreOrder(rs.ui))

\* ---- C18 (Spec) ---------------------------------------------------------
\* C18: when the primary command of tap, swipe, input_text or home_button
\* cannot be started because its executable is missing, the call raises
\* UnsupportedOperationError and the secondary command is not run.
C18_MissingPrimaryNeverFallsBack ==
  (lastOp \in FallbackOps /\ pre.connected /\ Len(cmdLog) >= 1 /\ cmdLog[1].rc = "missing")
    => /\ Raised(lastResult, UnsupportedOperationError)
       /\ cmdLog[1].tool = "pymobiledevice3"
       /\ Len(cmdLog) = 1

\* input_text on a connected session of a host without the primary executable.
C18_Witness ==
  /\ lastOp = "input_text"
  /\ pre.connected
  /\ Len(cmdLog) = 1
  /\ cmdLog[1].rc = "missing"
  /\ Raised(lastResult, UnsupportedOperationError)

\* ---- C19 (Spec) ---------------------------------------------------------
\* The commands of the log that went to one backend.
CmdsOf(tool) == {i \in 1..Len(cmdLog) : cmdLog[i].tool = tool}

\* C19: one call of tap, swipe, input_text or home_button on a connected
\* session runs the primary command exactly once, first, and the secondary
\* command at most once, only after a primary that exited non-zero; one call
\* of long_press runs exactly one command.
C19_NoRetryBeyondFallback ==
  /\ (lastOp \in FallbackOps /\ pre.connected)
       => /\ CmdsOf("pymobiledevice3") = {1}
          /\ CmdsOf("tidevice") \subseteq {2}
          /\ Len(cmdLog) <= 2
          /\ CmdsOf("tidevice") # {} <=> cmdLog[1].rc = "nonzero"
  /\ (lastOp = "long_press" /\ pre.connected)
       => Len(cmdLog) = 1 /\ cmdLog[1].tool = "pymobiledevice3"

\* A home_button whose primary exited non-zero and whose secondary failed
\* too: two commands, and no third.
C19_Witness ==
  /\ lastOp = "home_button"
  /\ pre.connected
  /\ Len(cmdLog) = 2
  /\ cmdLog[1].rc = "nonzero"
  /\ cmdLog[2].rc = "nonzero"
  /\ Raised(lastResult, IOSConnectionError)

\* ---- C20 (SpecWait) -----------------------------------------------------
\* The hierarchy fetches a call has started: one primary dump command each.
FetchesStarted == {i \in 1..Len(cmdLog) : cmdLog[i].tool = "pymobiledevice3"}

\* What holds at every moment of a wait_for_element_by_text call: a pass
\* that finds a match ends the call with True; False is returned only once
\* the elapsed time has reached the timeout; every pass does one fetch of
\* its own; a pass that finds nothing lasts at least the sleep, so there are
\* no more passes than the timeout holds sleeps; with a timeout of zero or
\* less there is no pass and no command at all.
WaitStepwise ==
  WaitCalled
    => /\ wait.last = "found" => pc = "idle" /\ lastResult = Return(TRUE)
       /\ lastResult = Return(FALSE) => wait.elapsed >= wait.timeout
       /\ Cardinality(FetchesStarted) = wait.polls
       /\ wait.polls * SleepTicks <= (IF wait.timeout > 0 THEN wait.timeout ELSE 0)
                                       + (IF wait.last = "found" THEN SleepTicks ELSE 0)
       /\ wait.timeout <= 0 => wait.polls = 0 /\ cmdLog = <<>>
       /\ (wait.timeout <= 0 /\ pc = "idle") => lastResult = Return(FALSE)

\* C20: wait_for_element_by_text always terminates, with True at the first
\* pass that finds a match and with False once the timeout has elapsed; it
\* fetches the hierarchy once per pass, and does no pass when the timeout
\* is zero or less.
C20_WaitTerminates ==
  /\ []WaitStepwise
  /\ (pc = "waiting") ~> (pc = "idle" /\ lastResult \in {Return(TRUE), Return(FALSE)})

\* A call that used up its timeout: as many passes as the timeout holds
\* sleeps, none of which found the text, and then False.
C20_Witness ==
  /\ WaitCalled
  /\ pc = "idle"
  /\ wait.timeout = MaxTimeout
  /\ wait.polls * SleepTicks = MaxTimeout
  /\ wait.elapsed = wait.timeout
  /\ lastResult = Return(FALSE)

\* ---- C21 (SpecResolver) -------------------------------------------------
\* The one field of a mapping node whose value is tested: the first of
\* "text", "label", "name" that is non-empty ("none": all three are empty).
TestedField(n) ==
  CASE n.text # <<>> -> "text"
    [] n.text = <<>> /\ n.label # <<>> -> "label"
    [] n.text = <<>> /\ n.label = <<>> /\ n.name # <<>> -> "name"
    [] OTHER -> "none"
TextFields == {"text", "label", "name"}

\* C21: a visited mapping node with bounds is accepted iff one of its three
\* text fields is non-empty and the first non-empty one, in the order text,
\* label, name, matches the query; the fields after that one are not
\* looked at, and a node whose three fields are all empty is never accepted.
C21_OnlyFirstNonEmptyFieldIsTested ==
  rs.called
    => \A i \in DecidedByText :
         LET n == rs.visited[i]
             f == TestedField(n)
         IN /\ f = "none" => ~AcceptedVisit(i)
            /\ f # "none"
                 => (AcceptedVisit(i) <=> TextMatches(n[f], rs.text, rs.exact_match))
            /\ (f # "none" /\ ~TextMatches(n[f], rs.text, rs.exact_match)
                  /\ \E g \in TextFields \ {f} : TextMatches(n[g], rs.text, rs.exact_match))
                 => ~AcceptedVisit(i)

\* A node whose text "a" does not match the query "ab" while its label "ab"
\* would: it is not matched.
C21_Witness ==
  /\ rs.called
  /\ rs.ui.type = "dict"
  /\ rs.text = Str("a", "b")
  /\ rs.ui.text = <<"a">>
  /\ rs.ui.label = Str("a", "b")
  /\ BoundsTruthy(NodeBounds(rs.ui))
  /\ rs.visited = <<rs.ui>>
  /\ rs.result = <<>>

\* ---- C22 (SpecResolver) -------------------------------------------------
\* The child collection of a mapping node by the rule as stated: the first of
\* "children", "elements" that is found, i.e. whose key the node carries.
FirstFoundKids(n) ==
  IF n.children # <<>> \/ "children" \in n.empty_lists THEN n.children ELSE n.elements
\* The first of the two that is non-empty.
FirstNonEmptyKids(n) == IF n.children # <<>> THEN n.children ELSE n.elements

\* The call was given a mapping node that is not itself the result.
RootPassedOver ==
  rs.called /\ rs.ui.type = "dict" /\ ~Accepted(rs.ui, rs.text, rs.exact_match)
\* After the root the resolver visited the nodes of the collection kids, in
\* pre-order, and no others: all of them when it found nothing, those up to
\* the result otherwise.
VisitedOnly(kids) ==
  LET below == PreOrderAll(kids, 1)
      n == Len(rs.visited) - 1
  IN /\ n <= Len(below)
     /\ Tail(rs.visited) = SubSeq(below, 1, n)
     /\ rs.result = <<>> => n = Len(below)

\* C22 as stated: at a mapping node the resolver descends into the first
\* found of the collections "children", "elements", and into that one only.
C22_FirstFoundCollectionAsStated == RootPassedOver => VisitedOnly(FirstFoundKids(rs.ui))

\* C22 amended: at a mapping node the resolver descends into "children" when
\* that collection is non-empty and into "elements" otherwise (also when a
\* "children" key is present with an empty list), and into that one only:
\* the two are never both traversed.
C22_FirstNonEmptyCollectionOnly == RootPassedOver => VisitedOnly(FirstNonEmptyKids(rs.ui))

\* A node with both collections non-empty: the children were searched
\* through without a result, and the match among the elements was never
\* visited.
C22_Witness ==
  /\ RootPassedOver
  /\ rs.ui.children # <<>>
  /\ rs.ui.elements # <<>>
  /\ \E k \in 1..Len(rs.ui.elements) : Accepted(rs.ui.elements[k], rs.text, rs.exact_match)
  /\ rs.visited = <<rs.ui>> \o PreOrderAll(rs.ui.children, 1)
  /\ rs.result = <<>>

\* ---- C23 (SpecResolver) -------------------------------------------------
IsPositional(b) == b.type = "list" /\ Len(b.items) >= 4

\* C23: when the matching node the resolver stops at carries a positional
\* bounds sequence [a, b, c, d, ...], the resolver returns
\* (floor((a+c)/2), floor((b+d)/2)), the point it returns for the mapping
\* {left: a, top: b, right: c, bottom: d}; that point is the center of
\* {x: a, y: b, width: c, height: d} only when floor((a+c)/2) = a + floor(c/2)
\* and floor((b+d)/2) = b + floor(d/2).
C23_PositionalBoundsReadAsLTRB ==
  (rs.called /\ IsPositional(FirstAcceptedBounds))
    => LET l == FirstAcceptedBounds.items
       IN /\ rs.result = <<Half(l[1] + l[3]), Half(l[2] + l[4])>>
          /\ rs.result = get_center_coordinates(LTRBBounds(l[1], l[2], l[3], l[4]))
          /\ rs.result = get_center_coordinates(XYWHBounds(l[1], l[2], l[3], l[4]))
               <=> /\ Half(l[1] + l[3]) = l[1] + Half(l[3])
                   /\ Half(l[2] + l[4]) = l[2] + Half(l[4])

\* The sequence [2, 1, 2, 2]: the resolver returns (2, 1), while the center
\* of x = 2, y = 1, width = 2, height = 2 is (3, 2).
C23_Witness ==
  /\ rs.called
  /\ FirstAcceptedBounds = ListBounds(<<2, 1, 2, 2>>)
  /\ rs.result = <<2, 1>>
  /\ get_center_coordinates(XYWHBounds(2, 1, 2, 2)) = <<3, 2>>

\* ---- C24 (Spec) ---------------------------------------------------------
\* C24: long_press on a connected session runs its one pymobiledevice3
\* command and nothing else; it returns True when that command succeeds,
\* raises IOSConnectionError when it exits non-zero and
\* UnsupportedOperationError when its executable is missing.
C24_LongPressHasNoFallback ==
  (lastOp = "long_press" /\ pre.connected)
    => /\ Len(cmdLog) = 1
       /\ cmdLog[1].tool = "pymobiledevice3" /\ cmdLog[1].op = "longpress"
       /\ cmdLog[1].rc = "ok" => lastResult = Return(TRUE)
       /\ cmdLog[1].rc = "nonzero" => Raised(lastResult, IOSConnectionError)
       /\ cmdLog[1].rc = "missing" => Raised(lastResult, UnsupportedOperationError)

\* A long_press whose command exited non-zero: the call has failed with one
\* command run.
C24_Witness ==
  /\ lastOp = "long_press"
  /\ pre.connected
  /\ cmdLog # <<>>
  /\ cmdLog[1].rc = "nonzero"
  /\ Len(cmdLog) = 1
  /\ Raised(lastResult, IOSConnectionError)

\* ---- C25 (Spec) ---------------------------------------------------------
\* The swipe a back_button call stands for, its commands ending as the
\* commands of the log ended.
EdgeSwipe ==
  swipe(pre, 10, 300, 200, 300, 3, cmdLog[1].rc,
        IF Len(cmdLog) >= 2 THEN cmdLog[2].rc ELSE "ok")

\* C25: back_button on a connected session runs the commands of
\* swipe(10, 300, 200, 300, 0.3), the fallback to the secondary command
\* included; it returns True exactly when that swipe returns True, and raises
\* IOSConnectionError whenever that swipe raises, also when the swipe raises
\* UnsupportedOperationError because the primary executable is missing.
C25_BackButtonIsEdgeSwipe ==
  (lastOp = "back_button" /\ pre.connected)
    => /\ Len(cmdLog) \in {1, 2}
       /\ cmdLog[1] = Cmd("pymobiledevice3", "swipe", pre.udid, <<10, 300, 200, 300, 3>>,
                         cmdLog[1].rc)
       /\ Len(cmdLog) = 2 <=> cmdLog[1].rc = "nonzero"
       /\ Len(cmdLog) = 2
            => cmdLog[2] = Cmd("tidevice", "swipe", pre.udid, <<10, 300, 200, 300>>,
                                cmdLog[2].rc)
       /\ cmdLog = EdgeSwipe.log
       /\ Returned(lastResult) <=> Returned(EdgeSwipe.result)
       /\ Returned(lastResult) => lastResult = Return(TRUE)
       /\ ~Returned(lastResult) => Raised(lastResult, IOSConnectionError)

\* The primary executable is missing: the swipe raises
\* UnsupportedOperationError, back_button raises IOSConnectionError.
C25_Witness ==
  /\ lastOp = "back_button"
  /\ pre.connected
  /\ cmdLog # <<>>
  /\ cmdLog[1].rc = "missing"
  /\ Raised(EdgeSwipe.result, UnsupportedOperationError)
  /\ Raised(lastResult, IOSConnectionError)

\* ---- C26 (Spec) ---------------------------------------------------------
\* C26: in every state of the session, whatever calls were made on it, it is
\* connected iff it holds a device record, and while it is connected its
\* udid is set and is the udid of that record.
C26_SessionInvariant ==
  /\ connected <=> device_info # <<>>
  /\ connected => /\ Truthy(udid)
                  /\ Len(device_info) = 1
                  /\ device_info[1].udid = udid

\* A session created without a udid that connected to the first of two
\* discovered devices.
C26_Witness ==
  /\ lastOp = "connect"
  /\ ~Truthy(pre.udid)
  /\ Len(discovered) = 2
  /\ discovered[1].udid # discovered[2].udid
  /\ connected
  /\ udid = discovered[1].udid
  /\ device_info = <<discovered[1]>>

\* ---- C27 (Spec) ---------------------------------------------------------
\* C27: a connect() that raises leaves udid, connected flag and device
\* record as they were before the call; a session that was connected stays
\* connected with the record it had.
C27_FailedConnectChangesNothing ==
  (lastOp = "connect" /\ lastResult.kind = "raise")
    => /\ udid = pre.udid
       /\ connected = pre.connected
       /\ device_info = pre.device_info
       /\ pre.connected => connected /\ device_info # <<>>

\* A connected session whose udid is no longer among the devices listed:
\* connect() raised and the session is still connected, with its old record.
C27_Witness ==
  /\ lastOp = "connect"
  /\ lastResult.kind = "raise"
  /\ pre.connected
  /\ discovered # <<>>
  /\ \A i \in 1..Len(discovered) : discovered[i].udid # pre.udid
  /\ connected
  /\ device_info = pre.device_info

\* ---- C28 (SpecReconnect) ------------------------------------------------
UdidListed(devices, u) == \E i \in 1..Len(devices) : devices[i].udid = u

\* C28: disconnect() leaves the udid in place; on a session created without
\* a udid, a connect() called while the session holds the udid an earlier
\* connect() selected looks for that udid only: it succeeds iff that udid is
\* listed, with the record of that udid, and fails when it is not listed,
\* also when other devices are; it never selects the first device again.
C28_SelectedUdidSticks ==
  /\ lastOp = "disconnect" => udid = pre.udid /\ ~connected
  /\ (lastOp = "connect" /\ Truthy(pre.udid))
       => /\ udid = pre.udid
          /\ Returned(lastResult) <=> UdidListed(discovered, pre.udid)
          /\ Returned(lastResult) => connected /\ device_info[1].udid = pre.udid
          /\ ~UdidListed(discovered, pre.udid)
               => lastResult.kind = "raise" /\ connected = pre.connected

\* After an automatic selection and a disconnect(), connect() was called
\* while only another device was listed: it failed and the session is
\* still bound to the udid selected first.
C28_Witness ==
  /\ lastOp = "connect"
  /\ Truthy(pre.udid)
  /\ ~pre.connected
  /\ discovered # <<>>
  /\ ~UdidListed(discovered, pre.udid)
  /\ lastResult.kind = "raise"
  /\ ~connected
  /\ udid = pre.udid

\* ---- C29 (Spec) ---------------------------------------------------------
\* The calls that may change the session.
SessionOps == {"__init__", "connect", "disconnect", "__enter__", "__exit__"}

\* C29: after any call other than connect, disconnect, __enter__ and
\* __exit__, and at every moment of a running wait_for_element_by_text,
\* udid, connected flag and device record are what they were when the call
\* was made, whether the call returned or raised; a session that was
\* connected is still connected after a call that failed.
C29_OnlySessionOpsChangeSession ==
  lastOp \notin SessionOps
    => /\ udid = pre.udid
       /\ connected = pre.connected
       /\ device_info = pre.device_info
       /\ (pre.connected /\ lastResult.kind = "raise") => connected

\* A reboot whose command failed on a connected session: the session is
\* still connected, with its record.
C29_Witness ==
  /\ lastOp = "reboot"
  /\ pre.connected
  /\ cmdLog # <<>>
  /\ cmdLog[1].rc = "nonzero"
  /\ Raised(lastResult, IOSConnectionError)
  /\ connected
  /\ device_info = pre.device_info
  /\ device_info # <<>>

\* ---- C30 (Spec) ---------------------------------------------------------
\* The tap commands of the log, and whether the delegated tap succeeded:
\* the last command of the log is a tap command that exited with status 0.
TapCmds == {i \in 1..Len(cmdLog) : IsTapCmd(cmdLog[i])}
DelegatedTapSucceeded ==
  cmdLog # <<>> /\ IsTapCmd(cmdLog[Len(cmdLog)]) /\ cmdLog[Len(cmdLog)].rc = "ok"
FetchFailed == get_ui_hierarchy(pre, query.f).result.kind = "raise"

====
